---- MODULE Spec2Model ----
(***************************************************************************)
(* Model of elektraGetOpts (libelektra, src/libs/opts): the specification  *)
(* compiler (processSpec), the argument parser (parseArgs), the            *)
(* environment reader (parseEnvp) and the value writer (writeOptionValues, *)
(* writeEnvVarValues, writeArgsValues, addProcKey).                        *)
(*                                                                         *)
(* A C string is a sequence of one-character strings, so that tokens can   *)
(* be scanned character by character as the code does.  A key name is a    *)
(* sequence of path parts, the first part being the namespace.  A KeySet   *)
(* is a function from key names to keys.                                   *)
(***************************************************************************)
EXTENDS Integers, Sequences, FiniteSets, TLC

\* The NULL pointer (no C string has a part of more than one character).
NULL == <<"NULL">>

\* The platform separator of PATH-like environment values (non-Windows build).
SEP_ENV_VALUE == ":"

\* Error codes set on errorKey; "" means that no error has been set.
NoError == [code |-> "", msg |-> ""]

IllegalSpec(m) == [code |-> "ILLEGAL_SPEC", msg |-> m]

IllegalUse(m) == [code |-> "ILLEGAL_USE", msg |-> m]

UnknownOption_asIllegalUse(m) == [code |-> "ILLEGAL_USE", msg |-> m]

UnknownOption(m) == [code |-> "UNKNOWN_OPTION", msg |-> m]

\* keyGetMetaString: an absent and an empty metadata value both read as NULL.
keyGetMetaString(value) == IF value = NULL \/ value = <<>> THEN NULL ELSE value

(***************************************************************************)
(* Key names and KeySets                                                   *)
(***************************************************************************)
keyBaseName(name) == name[Len(name)]

\* keySetBaseName (key, NULL): drop the last part of the name.
keyDropBaseName(name) == SubSeq(name, 1, Len(name) - 1)

\* keyNew ("proc"); keyAddName (procKey, strchr (keyName (key), '/')).
procName_sameNamespace(name) == name

procName(name) == <<"proc">> \o Tail(name)

\* The array index labels elektraArrayIncName steps through.
ArrayLabels == <<"#0", "#1", "#2", "#3", "#4", "#5", "#6", "#7", "#8", "#9", "#_10", "#_11">>

\* The array element name reached from "<parent>/#" by n + 1 calls of
\* elektraArrayIncName.
arrayElementName(parent, n) == parent \o <<ArrayLabels[n + 1]>>

\* The base name of the insert key after n calls of elektraArrayIncName.
arrayLastLabel(n) == IF n = 0 THEN <<"#">> ELSE <<ArrayLabels[n]>>

ksHas(ks, name) == name \in DOMAIN ks

ksAppendKey(ks, name, key) ==
    [n \in DOMAIN ks \cup {name} |-> IF n = name THEN key ELSE ks[n]]

EmptyKs == [n \in {} |-> NULL]

\* A key without metadata, as written into the proc namespace.
NoMeta == [opt |-> <<>>, env |-> <<>>, args |-> NULL, opthelp |-> NULL, description |-> NULL]

ValueKey(value) == [value |-> value, meta |-> NoMeta]

(***************************************************************************)
(* Specification compiler                                                  *)
(***************************************************************************)
\* One option slot of a spec key: the raw metadata values of "opt" (or
\* "opt/#n"), ".../long", ".../arg", ".../flagvalue", ".../nohelp" and
\* ".../arg/help".
SlotHelp(short, long, arg, flagvalue, nohelp, arghelp) ==
    [short |-> short, long |-> long, arg |-> arg, flagvalue |-> flagvalue, nohelp |-> nohelp,
     arghelp |-> arghelp]

Slot(short, long, arg, flagvalue, nohelp) == SlotHelp(short, long, arg, flagvalue, nohelp, NULL)

\* keyNew (keyName (key), KEY_END): a fresh plan entry for a spec key.
NewKeyWithOpt(name) ==
    [set |-> TRUE, name |-> name, opt |-> <<>>, env |-> <<>>, args |-> NULL, opthelp |-> NULL]

NoKeyWithOpt ==
    [set |-> FALSE, name |-> <<>>, opt |-> <<>>, env |-> <<>>, args |-> NULL, opthelp |-> NULL]

shortName(c) == <<"/short", <<c>>>>

longName(name) == <<"/long", name>>

\* The option table every compilation starts from: -h and --help.
InitialOptions ==
    [n \in {shortName("h"), longName(<<"h", "e", "l", "p">>)} |->
        [key |-> <<>>, hasarg |-> <<"n", "o", "n", "e">>, kind |-> "single", flagvalue |-> <<"1">>]]

Required == <<"r", "e", "q", "u", "i", "r", "e", "d">>

Optional == <<"o", "p", "t", "i", "o", "n", "a", "l">>

None == <<"n", "o", "n", "e">>

Remaining == <<"r", "e", "m", "a", "i", "n", "i", "n", "g">>

Help == <<"h", "e", "l", "p">>

\* The check of readOptionData on an explicit flagvalue: it needs opt/arg to be
\* "none" or "optional".
flagValueError_never(flagRaw, hasArg) == FALSE

flagValueError(flagRaw, hasArg) == flagRaw # NULL /\ hasArg # None /\ hasArg # Optional

\* readOptionData: hasarg, flagvalue, hidden and kind of one slot.
readOptionData(name, slot) ==
    LET hasArg == IF keyGetMetaString(slot.arg) = NULL THEN Required ELSE slot.arg
        flagRaw == keyGetMetaString(slot.flagvalue)
        nohelpStr == keyGetMetaString(slot.nohelp)
    IN  IF flagValueError(flagRaw, hasArg)
        THEN [ok |-> FALSE, err |-> IllegalSpec("flagvalue needs none or optional")]
        ELSE [ok |-> TRUE, err |-> NoError,
              hasArg |-> hasArg,
              flagValue |-> IF flagRaw = NULL THEN <<"1">> ELSE flagRaw,
              argName |-> keyGetMetaString(slot.arghelp),
              hidden |-> (nohelpStr # NULL /\ nohelpStr = <<"1">>),
              kind |-> IF keyBaseName(name) = "#" THEN "array" ELSE "single"]

OptSpec(name, od) ==
    [key |-> name, hasarg |-> od.hasArg, kind |-> od.kind, flagvalue |-> od.flagValue]

addOpt(kwo, name, optName) ==
    LET k == IF kwo.set THEN kwo ELSE NewKeyWithOpt(name)
    IN  [k EXCEPT !.opt = Append(@, optName)]

\* The checks of processShortOptSpec on a short option character: the message
\* of the error it raises, "" if the character can be bound.
shortOptError_noDash(optionsSpec, shortOpt) ==
    IF shortOpt = "h" THEN "'h' cannot be used as a short option"
    ELSE IF ksHas(optionsSpec, shortName(shortOpt)) THEN "short option already specified"
    ELSE ""

shortOptError_noExisting(optionsSpec, shortOpt) ==
    IF shortOpt = "-" THEN "'-' cannot be used as a short option"
    ELSE IF shortOpt = "h" THEN "'h' cannot be used as a short option"
    ELSE ""

shortOptError(optionsSpec, shortOpt) ==
    IF shortOpt = "-" THEN "'-' cannot be used as a short option"
    ELSE IF shortOpt = "h" THEN "'h' cannot be used as a short option"
    ELSE IF ksHas(optionsSpec, shortName(shortOpt)) THEN "short option already specified"
    ELSE ""

\* processShortOptSpec: st is [options, hasOpts, kwo, shortOptLine, longOptLine].
processShortOptSpec(st, name, slot, od) ==
    LET shortOptStr == keyGetMetaString(slot.short)
    IN  IF shortOptStr = NULL
        THEN [ok |-> TRUE, err |-> NoError, st |-> st]
        ELSE LET shortOpt == shortOptStr[1]
                 msg == shortOptError(st.options, shortOpt)
             IN  IF msg # ""
                 THEN [ok |-> FALSE, err |-> IllegalSpec(msg), st |-> st]
                 ELSE [ok |-> TRUE, err |-> NoError,
                       st |-> [options |-> ksAppendKey(st.options, shortName(shortOpt), OptSpec(name, od)),
                               hasOpts |-> st.hasOpts \/ ~od.hidden,
                               kwo |-> addOpt(st.kwo, name, shortName(shortOpt)),
                               shortOptLine |-> IF od.hidden
                                                THEN st.shortOptLine
                                                ELSE st.shortOptLine \o <<"-", shortOpt, ",", " ">>,
                               longOptLine |-> st.longOptLine]]

\* The argument part of a long option in the help: "=ARG", "=[ARG]" (with
\* the name of opt/arg/help, if set, for ARG) or nothing.
argString(od) ==
    LET arg == IF od.argName = NULL THEN <<"A", "R", "G">> ELSE od.argName
    IN  IF od.hasArg = Required THEN <<"=">> \o arg
        ELSE IF od.hasArg = Optional THEN <<"=", "[">> \o arg \o <<"]">>
        ELSE <<>>

\* processLongOptSpec
processLongOptSpec(st, name, slot, od) ==
    LET longOpt == keyGetMetaString(slot.long)
    IN  IF longOpt = NULL
        THEN [ok |-> TRUE, err |-> NoError, st |-> st]
        ELSE IF longOpt = Help
        THEN [ok |-> FALSE, err |-> IllegalSpec("'help' cannot be used as a long option"), st |-> st]
        ELSE IF ksHas(st.options, longName(longOpt))
        THEN [ok |-> FALSE, err |-> IllegalSpec("long option already specified"), st |-> st]
        ELSE [ok |-> TRUE, err |-> NoError,
              st |-> [options |-> ksAppendKey(st.options, longName(longOpt), OptSpec(name, od)),
                      hasOpts |-> st.hasOpts \/ ~od.hidden,
                      kwo |-> addOpt(st.kwo, name, longName(longOpt)),
                      shortOptLine |-> st.shortOptLine,
                      longOptLine |-> IF od.hidden
                                      THEN st.longOptLine
                                      ELSE st.longOptLine \o <<"-", "-">> \o longOpt \o argString(od)
                                               \o <<",", " ">>]]

\* The loop of processOptions over the option slots of one spec key.
RECURSIVE processOptionSlots(_, _, _, _)
processOptionSlots(st, name, slots, i) ==
    IF i > Len(slots)
    THEN [ok |-> TRUE, err |-> NoError, st |-> st]
    ELSE LET od == readOptionData(name, slots[i])
         IN  IF ~od.ok
             THEN [ok |-> FALSE, err |-> od.err, st |-> st]
             ELSE LET s == processShortOptSpec(st, name, slots[i], od)
                  IN  IF ~s.ok
                      THEN s
                      ELSE LET l == processLongOptSpec(s.st, name, slots[i], od)
                           IN  IF ~l.ok THEN l ELSE processOptionSlots(l.st, name, slots, i + 1)

RECURSIVE spaces(_)
spaces(n) == IF n <= 0 THEN <<>> ELSE <<" ">> \o spaces(n - 1)

\* trim ", " of end
trimEnd(line) == IF Len(line) > 2 THEN SubSeq(line, 1, Len(line) - 2) ELSE line

\* The help line of a spec key: "  %-28s%s", or on two lines if the options
\* take 30 characters or more.
optsLine(optsLinePart, help) ==
    IF Len(optsLinePart) < 30
    THEN <<" ", " ">> \o optsLinePart \o spaces(28 - Len(optsLinePart)) \o help
    ELSE <<" ", " ">> \o optsLinePart \o <<"\n", " ", " ">> \o spaces(30) \o help

\* The help text of a spec key: opt/help, else description, else "".
helpText(optHelp, description) ==
    IF optHelp # NULL THEN optHelp ELSE IF description # NULL THEN description ELSE <<>>

\* "%s%s%s" of the trimmed short part, ", " if there is a long part, and
\* the trimmed long part.
optsLinePart(shortOptLine, longOptLine) ==
    shortOptLine \o (IF Len(longOptLine) > 0 THEN <<",", " ">> ELSE <<>>) \o longOptLine

\* keySetMeta (*keyWithOpt, "opt/help", optsLine), if there is anything to
\* show for the key.
setOptHelp(r, part, help) ==
    IF Len(part) > 0 THEN [r EXCEPT !.st.kwo.opthelp = optsLine(part, help)] ELSE r

\* The end of processOptions, after the loop over the slots.
finishOptions(r, help) ==
    IF ~r.ok \/ ~r.st.kwo.set
    THEN r
    ELSE setOptHelp(r, optsLinePart(trimEnd(r.st.shortOptLine), trimEnd(r.st.longOptLine)), help)

\* processOptions: the slots of one spec key, then its help line.  sp is
\* [options, hasOpts]; meta is the metadata of the spec key.
processOptions(sp, name, meta) ==
    finishOptions(processOptionSlots([options |-> sp.options, hasOpts |-> sp.hasOpts,
                                      kwo |-> NoKeyWithOpt, shortOptLine |-> <<>>,
                                      longOptLine |-> <<>>], name, meta.opt, 1),
                  helpText(keyGetMetaString(meta.opthelp), keyGetMetaString(meta.description)))

\* processEnvVars: st is [used, kwo]; used is the set of bound variable names.
RECURSIVE processEnvVars(_, _, _, _)
processEnvVars(st, name, envVars, i) ==
    IF i > Len(envVars)
    THEN [ok |-> TRUE, err |-> NoError, st |-> st]
    ELSE IF envVars[i] \in st.used
    THEN [ok |-> FALSE, err |-> IllegalSpec("environment variable already specified"), st |-> st]
    ELSE LET k == IF st.kwo.set THEN st.kwo ELSE NewKeyWithOpt(name)
         IN  processEnvVars([used |-> st.used \cup {envVars[i]},
                             kwo |-> [k EXCEPT !.env = Append(@, envVars[i])]],
                            name, envVars, i + 1)

\* processSpec: the loop over the keys of ks, in KeySet order (names).  sp is
\* [options, keys, hasOpts, hasArgs, used].
RECURSIVE processSpec(_, _, _, _)
processSpec(sp, ks, names, i) ==
    IF i > Len(names)
    THEN [ok |-> TRUE, err |-> NoError, spec |-> sp]
    ELSE LET cur == names[i]
         IN  IF cur[1] # "spec"
             THEN processSpec(sp, ks, names, i + 1)
             ELSE LET o == processOptions([options |-> sp.options, hasOpts |-> sp.hasOpts],
                                          cur, ks[cur].meta)
                  IN  IF ~o.ok
                      THEN [ok |-> FALSE, err |-> o.err, spec |-> sp]
                      ELSE LET e == processEnvVars([used |-> sp.used, kwo |-> o.st.kwo],
                                                   cur, ks[cur].meta.env, 1)
                           IN  IF ~e.ok
                               THEN [ok |-> FALSE, err |-> e.err, spec |-> sp]
                               ELSE LET argsMeta == keyGetMetaString(ks[cur].meta.args)
                                        isArgs == argsMeta # NULL /\ argsMeta = Remaining
                                    IN  IF isArgs /\ keyBaseName(cur) # "#"
                                        THEN [ok |-> FALSE,
                                              err |-> IllegalSpec("args=remaining needs an array key"),
                                              spec |-> sp]
                                        ELSE LET k0 == IF e.st.kwo.set THEN e.st.kwo ELSE NewKeyWithOpt(cur)
                                                 kwo == IF isArgs
                                                        THEN [k0 EXCEPT !.args = Remaining]
                                                        ELSE e.st.kwo
                                             IN  processSpec(
                                                     [options |-> o.st.options,
                                                      keys |-> IF kwo.set THEN Append(sp.keys, kwo) ELSE sp.keys,
                                                      hasOpts |-> o.st.hasOpts,
                                                      hasArgs |-> sp.hasArgs \/ isArgs,
                                                      used |-> e.st.used],
                                                     ks, names, i + 1)

(***************************************************************************)
(* Argument parser                                                         *)
(***************************************************************************)
\* keyNew (keyName (opt), KEY_META, "key", ..., KEY_END): an option that has
\* not been given a value yet.
NewOption(key) == [key |-> key, value |-> <<>>, hasValues |-> FALSE, values |-> <<>>, short |-> FALSE]

setOption_overwrite(option, value, repeated) ==
    IF repeated
    THEN [option EXCEPT !.hasValues = TRUE, !.values = <<value>>]
    ELSE [option EXCEPT !.value = value]

\* setOption
setOption(option, value, repeated) ==
    IF repeated
    THEN [option EXCEPT !.hasValues = TRUE, !.values = Append(@, value)]
    ELSE [option EXCEPT !.value = value]

\* strchr: the index of the first c in str, 0 if there is none.
RECURSIVE strchr(_, _, _)
strchr(str, c, from) ==
    IF from > Len(str) THEN 0
    ELSE IF str[from] = c THEN from
    ELSE strchr(str, c, from + 1)

\* The rest of str from index from on (a pointer into the string).
strFrom(str, from) == SubSeq(str, from, Len(str))

\* The option was found before and cannot be repeated (option != NULL and
\* !repeated).
cannotRepeat_never(options, optName, repeated) == FALSE

cannotRepeat(options, optName, repeated) == ksHas(options, optName) /\ ~repeated

\* c + 1: the rest of the token after the character at position c.
restOfToken_oneChar(tok, c) == <<tok[c + 1]>>

restOfToken(tok, c) == strFrom(tok, c + 1)

\* The lookup of an option name found in argv in the compiled option table.
lookupSpec(optionsSpec, optName) == ksHas(optionsSpec, optName)

\* parseShortOptions: the loop over the characters of argv[i], c being the
\* (1-based) position of the current character in the token.
RECURSIVE parseShortOptions(_, _, _, _, _)
parseShortOptions(optionsSpec, options, argv, i, c) ==
    LET tok == argv[i + 1]
    IN  IF c > Len(tok)
        THEN [ok |-> TRUE, err |-> NoError, options |-> options, i |-> i]
        ELSE LET shortOpt == shortName(tok[c])
             IN  IF ~lookupSpec(optionsSpec, shortOpt)
                 THEN [ok |-> FALSE, err |-> UnknownOption("unknown short option"),
                       options |-> options, i |-> i]
                 ELSE LET optSpec == optionsSpec[shortOpt]
                          repeated == optSpec.kind = "array"
                          option == IF ksHas(options, shortOpt)
                                    THEN options[shortOpt]
                                    ELSE NewOption(optSpec.key)
                      IN  IF cannotRepeat(options, shortOpt, repeated)
                          THEN [ok |-> FALSE, err |-> IllegalUse("option cannot be repeated"),
                                options |-> options, i |-> i]
                          ELSE IF optSpec.hasarg = Required
                          THEN IF c = Len(tok)
                               THEN IF i >= Len(argv) - 1
                                    THEN [ok |-> FALSE, err |-> IllegalUse("missing argument"),
                                          options |-> options, i |-> i]
                                    ELSE \* use next as arg and skip
                                         [ok |-> TRUE, err |-> NoError,
                                          options |-> ksAppendKey(options, shortOpt,
                                              [setOption(option, argv[i + 2], repeated) EXCEPT !.short = TRUE]),
                                          i |-> i + 1]
                               ELSE \* use rest as argument
                                    [ok |-> TRUE, err |-> NoError,
                                     options |-> ksAppendKey(options, shortOpt,
                                         [setOption(option, restOfToken(tok, c), repeated) EXCEPT !.short = TRUE]),
                                     i |-> i]
                          ELSE \* use flag value
                               parseShortOptions(optionsSpec,
                                   ksAppendKey(options, shortOpt,
                                       [setOption(option, optSpec.flagvalue, repeated) EXCEPT !.short = TRUE]),
                                   argv, i, c + 1)

\* argStart > 0: the token has an '=' (at position eq of opt), whatever
\* follows it.
hasAttachedValue_nonEmpty(opt, eq) == eq > 0 /\ eq < Len(opt)

hasAttachedValue(opt, eq) == eq > 0

\* The value of a long option with an optional argument: only the '='
\* argument is used, else the flag value.
optionalArgument_takesNext(hasAttached, attached, flagvalue, argv, i) ==
    IF hasAttached THEN attached ELSE IF i < Len(argv) - 1 THEN argv[i + 2] ELSE flagvalue

optionalArgument(hasAttached, attached, flagvalue, argv, i) ==
    IF hasAttached THEN attached ELSE flagvalue

\* parseLongOption
parseLongOption(optionsSpec, options, argv, i) ==
    LET opt == strFrom(argv[i + 1], 3)
        eq == strchr(opt, "=", 1)
        name == IF eq > 0 THEN SubSeq(opt, 1, eq - 1) ELSE opt
        hasAttached == hasAttachedValue(opt, eq)
        attached == strFrom(opt, eq + 1)
        longOpt == longName(name)
    IN  IF ~lookupSpec(optionsSpec, longOpt)
        THEN [ok |-> FALSE, err |-> UnknownOption("unknown long option"), options |-> options, i |-> i]
        ELSE LET optSpec == optionsSpec[longOpt]
                 repeated == optSpec.kind = "array"
                 option == IF ksHas(options, longOpt) THEN options[longOpt] ELSE NewOption(optSpec.key)
             IN  IF cannotRepeat(options, longOpt, repeated)
                 THEN [ok |-> FALSE, err |-> IllegalUse("option cannot be repeated"),
                       options |-> options, i |-> i]
                 ELSE IF ksHas(options, longOpt) /\ option.short
                 THEN \* short option found already, ignore long version
                      [ok |-> TRUE, err |-> NoError, options |-> options, i |-> i]
                 ELSE IF optSpec.hasarg = Required
                 THEN IF hasAttached
                      THEN [ok |-> TRUE, err |-> NoError,
                            options |-> ksAppendKey(options, longOpt, setOption(option, attached, repeated)),
                            i |-> i]
                      ELSE IF i >= Len(argv) - 1
                      THEN [ok |-> FALSE, err |-> IllegalUse("missing argument"),
                            options |-> options, i |-> i]
                      ELSE [ok |-> TRUE, err |-> NoError,
                            options |-> ksAppendKey(options, longOpt, setOption(option, argv[i + 2], repeated)),
                            i |-> i + 1]
                 ELSE IF optSpec.hasarg = Optional
                 THEN [ok |-> TRUE, err |-> NoError,
                       options |-> ksAppendKey(options, longOpt,
                           setOption(option,
                                     optionalArgument(hasAttached, attached, optSpec.flagvalue, argv, i),
                                     repeated)),
                       i |-> i]
                 ELSE IF hasAttached
                 THEN [ok |-> FALSE, err |-> IllegalUse("option cannot have an argument"),
                       options |-> options, i |-> i]
                 ELSE [ok |-> TRUE, err |-> NoError,
                       options |-> ksAppendKey(options, longOpt, setOption(option, optSpec.flagvalue, repeated)),
                       i |-> i]

\* One iteration of the first loop of parseArgs, at index i of argv.  The
\* result says whether the loop goes on (next) and at which index.
parseArgsStep(optionsSpec, options, args, argv, i, posixly) ==
    LET cur == argv[i + 1]
    IN  IF Len(cur) >= 1 /\ cur[1] = "-"
        THEN IF Len(cur) >= 2 /\ cur[2] = "-"
             THEN IF Len(cur) = 2
                  THEN \* end of options: skip -- and leave the loop
                       [ok |-> TRUE, err |-> NoError, options |-> options, args |-> args,
                        i |-> i + 1, next |-> FALSE]
                  ELSE LET r == parseLongOption(optionsSpec, options, argv, i)
                       IN  [ok |-> r.ok, err |-> r.err, options |-> r.options, args |-> args,
                            i |-> r.i + 1, next |-> TRUE]
             ELSE LET r == parseShortOptions(optionsSpec, options, argv, i, 2)
                  IN  [ok |-> r.ok, err |-> r.err, options |-> r.options, args |-> args,
                       i |-> r.i + 1, next |-> TRUE]
        ELSE IF posixly
        THEN [ok |-> TRUE, err |-> NoError, options |-> options, args |-> args, i |-> i, next |-> FALSE]
        ELSE [ok |-> TRUE, err |-> NoError, options |-> options, args |-> Append(args, cur),
              i |-> i + 1, next |-> TRUE]

collectRest_parsesOptions(args, argv, i) ==
    args \o SelectSeq(SubSeq(argv, i + 1, Len(argv)), LAMBDA t : Len(t) = 0 \/ t[1] # "-")

\* The second loop of parseArgs: the rest of argv, from index i on.
collectRest(args, argv, i) == args \o SubSeq(argv, i + 1, Len(argv))

\* parseEnvp: NAME=VALUE strings into a KeySet of values by name.
RECURSIVE parseEnvp(_, _, _)
parseEnvp(ks, envp, n) ==
    IF n > Len(envp)
    THEN ks
    ELSE LET eq == strchr(envp[n], "=", 1)
         IN  parseEnvp(ksAppendKey(ks, SubSeq(envp[n], 1, eq - 1), strFrom(envp[n], eq + 1)), envp, n + 1)

(***************************************************************************)
(* Value writer                                                            *)
(***************************************************************************)
\* The pieces of an environment value between separators, the last piece
\* (which may be empty) included.
RECURSIVE splitAt(_, _)
splitAt(str, sep) ==
    LET c == strchr(str, sep, 1)
    IN  IF c = 0
        THEN <<str>>
        ELSE <<SubSeq(str, 1, c - 1)>> \o splitAt(strFrom(str, c + 1), sep)

\* splitEnvValue: a value without separator stays the string value of the
\* key; otherwise the string value is reset and the pieces become "values".
splitEnvValue(envValue) ==
    IF strchr(envValue, SEP_ENV_VALUE, 1) = 0
    THEN [value |-> envValue, hasValues |-> FALSE, values |-> <<>>]
    ELSE [value |-> <<>>, hasValues |-> TRUE, values |-> splitAt(envValue, SEP_ENV_VALUE)]

\* The loop of addProcKey and of writeArgsValues that appends the array
\* elements parent/#0, parent/#1, ... for values[n..].
RECURSIVE appendElements(_, _, _, _)
appendElements(ks, parent, values, n) ==
    IF n > Len(values)
    THEN ks
    ELSE appendElements(ksAppendKey(ks, arrayElementName(parent, n - 1), ValueKey(values[n])),
                        parent, values, n + 1)

\* The check of addProcKey for a value that is there already: the key exists
\* and its string value is not empty.
hasExistingValue_never(ks, procKey) == FALSE

hasExistingValue_anyString(ks, procKey) == ksHas(ks, procKey)

hasExistingValue(ks, procKey) == ksHas(ks, procKey) /\ Len(ks[procKey].value) > 0

\* addProcKey: present says whether valueKey is a key (not NULL).
addProcKey(ks, name, present, valueKey) ==
    IF ~present
    THEN [res |-> 1, ks |-> ks]
    ELSE LET isArrayKey == keyBaseName(procName(name)) = "#"
             procKey == IF isArrayKey THEN keyDropBaseName(procName(name)) ELSE procName(name)
         IN  IF hasExistingValue(ks, procKey)
             THEN [res |-> -1, ks |-> ks]
             ELSE IF isArrayKey
             THEN IF ~valueKey.hasValues
                  THEN [res |-> 1, ks |-> ks]
                  ELSE [res |-> 0,
                        ks |-> ksAppendKey(appendElements(ks, procKey, valueKey.values, 1), procKey,
                                           ValueKey(arrayLastLabel(Len(valueKey.values))))]
             ELSE [res |-> 0, ks |-> ksAppendKey(ks, procKey, ValueKey(valueKey.value))]

\* writeOptionValues: the loop over the "opt" entries of the plan entry.
RECURSIVE writeOptionValues(_, _, _, _, _, _)
writeOptionValues(ks, keyWithOpt, options, n, shortFound, valueFound) ==
    IF n > Len(keyWithOpt.opt)
    THEN [res |-> IF valueFound THEN 1 ELSE 0, ks |-> ks, err |-> NoError]
    ELSE LET optMeta == keyWithOpt.opt[n]
             isShort == optMeta[1] = "/short"
         IN  IF shortFound /\ ~isShort
             THEN \* ignore long options, if a short one was found
                  writeOptionValues(ks, keyWithOpt, options, n + 1, shortFound, valueFound)
             ELSE LET r == addProcKey(ks, keyWithOpt.name, ksHas(options, optMeta),
                                      IF ksHas(options, optMeta) THEN options[optMeta] ELSE NewOption(<<>>))
                  IN  IF r.res = 0
                      THEN writeOptionValues(r.ks, keyWithOpt, options, n + 1, shortFound \/ isShort, TRUE)
                      ELSE IF r.res < 0
                      THEN [res |-> -1, ks |-> r.ks,
                            err |-> IllegalUse("another option has already been used")]
                      ELSE writeOptionValues(r.ks, keyWithOpt, options, n + 1, shortFound, valueFound)

\* The error writeEnvVarValues sets when addProcKey fails.
envVarUsedError_illegalSpec == IllegalSpec("another variable has already been used")

envVarUsedError == IllegalUse("another variable has already been used")

\* writeEnvVarValues: the loop over the "env" entries of the plan entry.
RECURSIVE writeEnvVarValues(_, _, _, _, _)
writeEnvVarValues(ks, keyWithOpt, envValues, n, valueFound) ==
    IF n > Len(keyWithOpt.env)
    THEN [res |-> IF valueFound THEN 1 ELSE 0, ks |-> ks, err |-> NoError]
    ELSE LET envMeta == keyWithOpt.env[n]
             r == addProcKey(ks, keyWithOpt.name, ksHas(envValues, envMeta),
                             IF ksHas(envValues, envMeta)
                             THEN splitEnvValue(envValues[envMeta])
                             ELSE splitEnvValue(<<>>))
         IN  IF r.res < 0
             THEN [res |-> -1, ks |-> r.ks, err |-> envVarUsedError]
             ELSE writeEnvVarValues(r.ks, keyWithOpt, envValues, n + 1, valueFound \/ r.res = 0)

\* writeArgsValues
writeArgsValues(ks, keyWithOpt, args) ==
    LET argsMeta == keyGetMetaString(keyWithOpt.args)
    IN  IF argsMeta = NULL \/ argsMeta # Remaining
        THEN ks
        ELSE LET parent == keyDropBaseName(procName(keyWithOpt.name))
             IN  ksAppendKey(appendElements(ks, parent, args, 1), parent,
                             ValueKey(arrayLastLabel(Len(args))))

\* The body of the loop of elektraGetOpts over the plan entries: options
\* first, then environment variables, then the remaining arguments.
writeKey(ks, keyWithOpt, options, envValues, args) ==
    LET o == writeOptionValues(ks, keyWithOpt, options, 1, FALSE, FALSE)
    IN  IF o.res # 0
        THEN o
        ELSE LET e == writeEnvVarValues(o.ks, keyWithOpt, envValues, 1, FALSE)
             IN  IF e.res # 0
                 THEN e
                 ELSE [res |-> 0, ks |-> writeArgsValues(e.ks, keyWithOpt, args), err |-> NoError]

(***************************************************************************)
(* Help renderer                                                           *)
(***************************************************************************)
\* strrchr: the index of the last c in str, 0 if there is none.
RECURSIVE strrchr(_, _, _)
strrchr(str, c, from) ==
    IF from < 1 THEN 0
    ELSE IF str[from] = c THEN from
    ELSE strrchr(str, c, from - 1)

\* The program name of the help message: argv[0] after its last '/'.
progname(arg0) == strFrom(arg0, strrchr(arg0, "/", Len(arg0)) + 1)

generateUsageLine_always(prog, hasOpts, hasArgs) ==
    <<"U", "s", "a", "g", "e", ":", " ">> \o prog
        \o <<" ", "[", "O", "P", "T", "I", "O", "N", "]", ".", ".", ".">>
        \o (IF hasArgs THEN <<" ", "[", "A", "R", "G", "]", ".", ".", ".">> ELSE <<>>)
        \o <<"\n">>

\* generateUsageLine
generateUsageLine(prog, hasOpts, hasArgs) ==
    <<"U", "s", "a", "g", "e", ":", " ">> \o prog
        \o (IF hasOpts THEN <<" ", "[", "O", "P", "T", "I", "O", "N", "]", ".", ".", ".">> ELSE <<>>)
        \o (IF hasArgs THEN <<" ", "[", "A", "R", "G", "]", ".", ".", ".">> ELSE <<>>)
        \o <<"\n">>

\* generateOptionsList: the loop over the plan entries from entry n on.
RECURSIVE optionLines(_, _)
optionLines(keysWithOpts, n) ==
    IF n > Len(keysWithOpts) THEN <<>>
    ELSE (IF keyGetMetaString(keysWithOpts[n].opthelp) # NULL
          THEN <<"\n">> \o keysWithOpts[n].opthelp
          ELSE <<>>) \o optionLines(keysWithOpts, n + 1)

generateOptionsList_noEnd(keysWithOpts) ==
    IF Len(keysWithOpts) = 0
    THEN <<>>
    ELSE <<"O", "P", "T", "I", "O", "N", "S">> \o optionLines(keysWithOpts, 1)

generateOptionsList(keysWithOpts) ==
    IF Len(keysWithOpts) = 0
    THEN <<>>
    ELSE <<"O", "P", "T", "I", "O", "N", "S">> \o optionLines(keysWithOpts, 1) \o <<"\n">>

(***************************************************************************)
(* Inputs                                                                  *)
(***************************************************************************)
\* The largest number of arguments after argv[0].
MaxArgs == 2

\* The largest number of calls of elektraGetOpts in a row.
MaxCalls == 2

K1 == <<"spec", "k1">>

K2 == <<"spec", "k2", "#">>

K3 == <<"spec", "k3">>

\* The order in which a KeySet holds (and ksNext visits) the key names used.
KeyOrder ==
    <<<<"proc", "k1">>, <<"proc", "k2">>, <<"proc", "k2", "#0">>, <<"proc", "k2", "#1">>,
      <<"proc", "k2", "#2">>, <<"proc", "k3">>, K1, K2, K3>>

\* ksRewind and ksNext until NULL: the names of ks in KeySet order.
ksNames(ks) == SelectSeq(KeyOrder, LAMBDA n : n \in DOMAIN ks)

SpecKeyHelp(opt, env, argsMeta, opthelp, description) ==
    [value |-> <<>>,
     meta |-> [opt |-> opt, env |-> env, args |-> argsMeta, opthelp |-> opthelp, description |-> description]]

SpecKey(opt, env, argsMeta) == SpecKeyHelp(opt, env, argsMeta, NULL, NULL)

\* option slots: -a/--lo with a required argument, -b/--mo as a flag or
\* with a required argument, --lo with an optional argument
SlotA == Slot(<<"a">>, <<"l", "o">>, NULL, NULL, NULL)

SlotB == Slot(<<"b">>, <<"m", "o">>, None, NULL, NULL)

SlotBReq == Slot(<<"b">>, <<"m", "o">>, Required, NULL, NULL)

SlotOpt == SlotHelp(<<"a">>, <<"l", "o">>, Optional, <<"f">>, NULL, <<"N">>)

EnvE == <<"E">>

EnvF == <<"F">>

KsOf(k1, k2, k3, p1) ==
    [n \in {K1, K2, K3, <<"proc", "k1">>} |->
        IF n = K1 THEN k1 ELSE IF n = K2 THEN k2 ELSE IF n = K3 THEN k3 ELSE p1]

Restrict(f, S) == [n \in S |-> f[n]]

\* Specifications that compile.
LegalKeySets ==
    { Restrict(KsOf(SpecKeyHelp(<<SlotA>>, <<EnvE>>, NULL, <<"H">>, <<"D">>), NULL, NULL, NULL), {K1}),
      Restrict(KsOf(SpecKeyHelp(<<SlotA, SlotB>>, <<EnvE, EnvF>>, NULL, NULL, <<"D">>), NULL, NULL, NULL),
               {K1}),
      Restrict(KsOf(SpecKey(<<SlotOpt>>, <<>>, NULL), NULL, NULL, NULL), {K1}),
      Restrict(KsOf(NULL, SpecKey(<<SlotA>>, <<EnvE, EnvF>>, Remaining), NULL, NULL), {K2}),
      Restrict(KsOf(SpecKey(<<SlotA>>, <<EnvE>>, NULL), SpecKey(<<SlotBReq>>, <<EnvF>>, Remaining), NULL, NULL),
               {K1, K2}),
      Restrict(KsOf(SpecKey(<<SlotA>>, <<EnvE>>, NULL), NULL, NULL, ValueKey(<<"o">>)),
               {K1, <<"proc", "k1">>}),
      Restrict(KsOf(SpecKey(<<SlotA>>, <<EnvE>>, NULL), NULL, NULL, ValueKey(<<>>)),
               {K1, <<"proc", "k1">>}) }

\* Specifications that bind an option or a variable twice, or a reserved
\* option.
IllegalKeySets ==
    { Restrict(KsOf(SpecKey(<<SlotA>>, <<>>, NULL), NULL,
                    SpecKey(<<Slot(<<"a">>, NULL, NULL, NULL, NULL)>>, <<>>, NULL), NULL), {K1, K3}),
      Restrict(KsOf(SpecKey(<<SlotA>>, <<>>, NULL), NULL,
                    SpecKey(<<Slot(NULL, <<"l", "o">>, NULL, NULL, NULL)>>, <<>>, NULL), NULL), {K1, K3}),
      Restrict(KsOf(SpecKey(<<SlotA>>, <<EnvE>>, NULL), NULL,
                    SpecKey(<<>>, <<EnvE>>, NULL), NULL), {K1, K3}),
      Restrict(KsOf(SpecKey(<<Slot(<<"-">>, NULL, NULL, NULL, NULL)>>, <<>>, NULL), NULL, NULL, NULL), {K1}),
      Restrict(KsOf(SpecKey(<<SlotB, Slot(<<"h">>, NULL, NULL, NULL, NULL)>>, <<>>, NULL), NULL, NULL, NULL),
               {K1}),
      Restrict(KsOf(SpecKey(<<Slot(NULL, Help, None, NULL, NULL)>>, <<>>, NULL), NULL, NULL, NULL), {K1}) }

KeySets == LegalKeySets \cup IllegalKeySets

\* The argument strings argv is made of.
Tokens ==
    { <<"-", "a", "v">>, <<"-", "a">>, <<"-", "b">>, <<"-", "b", "u">>,
      <<"-", "-", "l", "o", "=", "w">>, <<"-", "-", "l", "o", "=">>, <<"-", "-", "m", "o">>,
      <<"-", "h">>, <<"-", "-", "h", "e", "l", "p">>, <<"-", "-">>, <<"-">>, <<"p">>, <<"-", "x">> }

Prog == <<"/", "b", "/", "p", "r", "o", "g">>

RECURSIVE SeqsUpTo(_, _)
SeqsUpTo(S, n) ==
    IF n = 0 THEN {<<>>}
    ELSE LET shorter == SeqsUpTo(S, n - 1)
         IN  shorter \cup {Append(q, t) : q \in shorter, t \in S}

Argvs == {<<Prog>> \o rest : rest \in SeqsUpTo(Tokens, MaxArgs)}

\* The environments: NAME=VALUE strings.
Envps ==
    { <<>>,
      << <<"E", "=", "e">> >>,
      << <<"E", "=", "e", ":", "g">> >>,
      << <<"E", "=", "e", ":">>, <<"F", "=", "f">> >>,
      << <<"E", "=", "e">>, <<"F", "=", "f", ":", "g">> >>,
      << <<"E", "=">>, <<"F", "=", "f">> >>,
      << <<"E", "=", "e", ":", "g", ":">>, <<"F", "=", "f", ":">> >> }

\* Specifications for the argument parser: a scalar key with -a/--lo
\* (required argument) and -b/--mo (flag); the same with an optional argument
\* for --lo; an array key with both; a scalar key with both next to an array
\* key for the remaining arguments.
ParserKeySets ==
    { Restrict(KsOf(SpecKey(<<SlotA, SlotB>>, <<>>, NULL), NULL, NULL, NULL), {K1}),
      Restrict(KsOf(SpecKey(<<SlotOpt, SlotB>>, <<>>, NULL), NULL, NULL, NULL), {K1}),
      Restrict(KsOf(NULL, SpecKey(<<SlotA, SlotB>>, <<>>, NULL), NULL, NULL), {K2}),
      Restrict(KsOf(SpecKey(<<SlotA, SlotB>>, <<>>, NULL), SpecKey(<<>>, <<>>, Remaining), NULL, NULL),
               {K1, K2}) }

\* Specifications with an empty short option (alone, with a long option of
\* the slot, with an environment variable of the key).
EmptyShortKeySets ==
    { Restrict(KsOf(SpecKey(<<Slot(<<>>, NULL, NULL, NULL, NULL)>>, <<>>, NULL), NULL, NULL, NULL), {K1}),
      Restrict(KsOf(SpecKey(<<Slot(<<>>, <<"l", "o">>, NULL, NULL, NULL)>>, <<>>, NULL), NULL, NULL, NULL),
               {K1}),
      Restrict(KsOf(SpecKey(<<Slot(<<>>, NULL, None, NULL, NULL), SlotB>>, <<>>, NULL), NULL, NULL, NULL),
               {K1}) }

\* Specifications with a flagvalue on a slot whose argument is required
\* (explicitly, by default), the flagvalue being a string or empty.
FlagValueKeySets ==
    { Restrict(KsOf(SpecKey(<<Slot(<<"a">>, NULL, Required, <<"f">>, NULL)>>, <<>>, NULL), NULL, NULL, NULL),
               {K1}),
      Restrict(KsOf(SpecKey(<<SlotB, Slot(NULL, <<"l", "o">>, NULL, <<"f">>, NULL)>>, <<>>, NULL),
                    NULL, NULL, NULL), {K1}),
      Restrict(KsOf(SpecKey(<<Slot(<<"a">>, <<"l", "o">>, NULL, <<>>, NULL)>>, <<>>, NULL), NULL, NULL, NULL),
               {K1}) }

\* The argument strings of the parser specification.
ParserTokens ==
    { <<"-", "a", "b", "v">>, <<"-", "a", "b">>, <<"-", "a">>, <<"-", "b">>, <<"-", "b", "a">>,
      <<"-", "b", "b">>, <<"-", "b", "x">>,
      <<"-", "-", "l", "o">>, <<"-", "-", "l", "o", "=", "w">>, <<"-", "-", "l", "o", "=">>,
      <<"-", "-", "m", "o">>, <<"-", "-", "m", "o", "=", "u">>, <<"-", "-", "z", "z">>,
      <<"-", "h">>, <<"-", "-">>, <<"-">>, <<"p">> }

ParserArgvs == {<<Prog>> \o rest : rest \in SeqsUpTo(ParserTokens, MaxArgs)}

\* Specifications for the help message: no key at all; a key that is no
\* spec key; options with a help text; a hidden option only; an environment
\* variable only; the remaining arguments only; a hidden and a shown option
\* of one key; a hidden option, the remaining arguments and a shown long
\* option on three keys.
SlotHidden == Slot(<<"a">>, <<"l", "o">>, NULL, NULL, <<"1">>)

SlotShown == Slot(NULL, <<"m", "o">>, None, NULL, <<"0">>)

HelpKeySets ==
    { Restrict(KsOf(NULL, NULL, NULL, NULL), {}),
      Restrict(KsOf(NULL, NULL, NULL, ValueKey(<<"o">>)), {<<"proc", "k1">>}),
      Restrict(KsOf(SpecKeyHelp(<<SlotA, SlotB>>, <<>>, NULL, <<"H">>, <<"D">>), NULL, NULL, NULL), {K1}),
      Restrict(KsOf(SpecKey(<<SlotHidden>>, <<>>, NULL), NULL, NULL, NULL), {K1}),
      Restrict(KsOf(SpecKey(<<>>, <<EnvE>>, NULL), NULL, NULL, NULL), {K1}),
      Restrict(KsOf(NULL, SpecKey(<<>>, <<>>, Remaining), NULL, NULL), {K2}),
      Restrict(KsOf(SpecKeyHelp(<<SlotHidden, SlotShown>>, <<>>, NULL, NULL, <<"D">>), NULL, NULL, NULL),
               {K1}),
      Restrict(KsOf(SpecKey(<<SlotHidden>>, <<>>, NULL), SpecKey(<<>>, <<>>, Remaining),
                    SpecKeyHelp(<<SlotShown>>, <<>>, NULL, <<"H">>, NULL), NULL), {K1, K2, K3}) }

\* Specifications next to keys that no binding writes: a spec key without
\* binding and its proc key, a proc key no spec key stands for, and old
\* elements of an array.
FrameKeySets ==
    { (K1 :> SpecKey(<<SlotA>>, <<EnvE>>, NULL)) @@ (K3 :> SpecKeyHelp(<<>>, <<>>, NULL, NULL, <<"D">>))
          @@ (<<"proc", "k3">> :> ValueKey(<<"o">>)) @@ (<<"proc", "k1">> :> ValueKey(<<>>)),
      (K2 :> SpecKey(<<SlotA>>, <<>>, Remaining)) @@ (<<"proc", "k2", "#1">> :> ValueKey(<<"o">>))
          @@ (<<"proc", "k3">> :> ValueKey(<<"o">>)),
      (K3 :> SpecKey(<<>>, <<>>, NULL)) @@ (<<"proc", "k1">> :> ValueKey(<<"o">>)) }

FrameEnvps == {<<>>, << <<"E", "=", "e">> >>}

\* argv[0] with directories, without, and ending in '/'
Progs == {Prog, <<"p", "r", "o", "g">>, <<"b", "/">>}

HelpTokenSet == {<<"-", "h">>, <<"-", "-", "h", "e", "l", "p">>, <<"-", "b">>, <<"p">>, <<"-", "-">>}

HelpArgvs == {<<arg0>> \o rest : arg0 \in Progs, rest \in SeqsUpTo(HelpTokenSet, MaxArgs)}

(***************************************************************************)
(* elektraGetOpts as a state machine                                       *)
(***************************************************************************)
VARIABLES
    ks,         \* the KeySet passed to elektraGetOpts
    entry,      \* ks as it was on entry
    argv,       \* argv[0..argc-1], argv[0] being element 1
    envp,       \* the environment strings
    errorKey,   \* the error key: posixly, the error set, the help texts
    spec,       \* struct Specification: options, keys, hasOpts, hasArgs
    options,    \* the options found in argv, by option name
    args,       \* the elements of /args/#, in order
    envValues,  \* the environment values by name
    i,          \* the index into argv of parseArgs
    cursor,     \* the index into spec.keys of the writing loop
    pc,         \* the position in elektraGetOpts
    result,     \* the return value, once pc = "done"
    heap,       \* how often each internal KeySet was created and deleted
    calls       \* the number of calls of elektraGetOpts, this one included

vars ==
    <<ks, entry, argv, envp, errorKey, spec, options, args, envValues, i, cursor, pc, result, heap, calls>>

\* The KeySets elektraGetOpts and processSpec allocate: usedEnvVars,
\* spec.options, spec.keys, the options of parseArgs, envValues and args.
Containers == {"usedEnvVars", "spec.options", "spec.keys", "options", "envValues", "args"}

NoHeap == [c \in Containers |-> [created |-> 0, deleted |-> 0]]

ksNew(h, c) == [h EXCEPT ![c].created = @ + 1]

ksDel_keep(h, c) == h

ksDel(h, c) == [h EXCEPT ![c].deleted = @ + 1]

\* a sequence of ksNew calls
RECURSIVE ksNewAll(_, _)
ksNewAll(h, cs) == IF cs = <<>> THEN h ELSE ksNewAll(ksNew(h, Head(cs)), Tail(cs))

\* a sequence of ksDel calls
RECURSIVE ksDelAll(_, _)
ksDelAll(h, cs) == IF cs = <<>> THEN h ELSE ksDelAll(ksDel(h, Head(cs)), Tail(cs))

NoSpec == [options |-> InitialOptions, keys |-> <<>>, hasOpts |-> FALSE, hasArgs |-> FALSE]

InitWith(keySets, argvs, envps, posixlys) ==
    /\ ks \in keySets
    /\ entry = ks
    /\ argv \in argvs
    /\ envp \in envps
    /\ \E posixly \in posixlys :
           errorKey = [posixly |-> posixly, error |-> NoError, usage |-> NULL, options |-> NULL]
    /\ spec = NoSpec
    /\ options = EmptyKs
    /\ args = <<>>
    /\ envValues = EmptyKs
    /\ i = 1
    /\ cursor = 1
    /\ pc = "processSpec"
    /\ result = 0
    /\ heap = NoHeap
    /\ calls = 1

Init == InitWith(KeySets, Argvs, Envps, {NULL, <<"1">>})

\* return -1 with the error set on errorKey
Fail(err) ==
    /\ errorKey' = [errorKey EXCEPT !.error = err]
    /\ result' = -1
    /\ pc' = "done"

\* processSpec (&spec, ks, errorKey)
ProcessSpec ==
    /\ pc = "processSpec"
    /\ LET r == processSpec([options |-> InitialOptions, keys |-> <<>>, hasOpts |-> FALSE,
                             hasArgs |-> FALSE, used |-> {}], ks, ksNames(ks), 1)
       IN  IF r.ok
           THEN /\ spec' = [options |-> r.spec.options, keys |-> r.spec.keys,
                            hasOpts |-> r.spec.hasOpts, hasArgs |-> r.spec.hasArgs]
                /\ pc' = IF 1 < Len(argv) THEN "parseArgs" ELSE "collect"
                /\ heap' = ksNew(ksDel(ksNewAll(heap, <<"usedEnvVars", "spec.options", "spec.keys">>),
                                        "usedEnvVars"), "options")
                /\ UNCHANGED <<errorKey, result>>
           ELSE /\ Fail(r.err)
                /\ heap' = ksDelAll(ksNewAll(heap, <<"usedEnvVars", "spec.options", "spec.keys">>),
                                    <<"spec.options", "spec.keys", "usedEnvVars">>)
                /\ UNCHANGED spec
    /\ UNCHANGED <<ks, entry, argv, envp, options, args, envValues, i, cursor, calls>>

\* one iteration of the first loop of parseArgs
ParseArg ==
    /\ pc = "parseArgs"
    /\ LET posixlyStr == keyGetMetaString(errorKey.posixly)
           r == parseArgsStep(spec.options, options, args, argv, i,
                              posixlyStr # NULL /\ posixlyStr = <<"1">>)
       IN  IF r.ok
           THEN /\ options' = r.options
                /\ args' = r.args
                /\ i' = r.i
                /\ pc' = IF r.next /\ r.i < Len(argv) THEN "parseArgs" ELSE "collect"
                /\ UNCHANGED <<errorKey, result, heap>>
           ELSE /\ Fail(r.err)
                /\ heap' = ksDelAll(heap, <<"options", "spec.options", "spec.keys">>)
                /\ UNCHANGED <<options, args, i>>
    /\ UNCHANGED <<ks, entry, argv, envp, spec, envValues, cursor, calls>>

\* the second loop of parseArgs and its return
CollectRest ==
    /\ pc = "collect"
    /\ args' = collectRest(args, argv, i)
    /\ i' = IF i < Len(argv) THEN Len(argv) ELSE i
    /\ pc' = "help"
    /\ UNCHANGED <<ks, entry, argv, envp, errorKey, spec, options, envValues, cursor, result, heap, calls>>

helpFound_shortOnly(opts) == ksHas(opts, shortName("h"))

\* ksLookupByName (options, "/short/h"), then ksLookupByName (options, "/long/help")
helpFound(opts) == ksHas(opts, shortName("h")) \/ ksHas(opts, longName(Help))

\* -h or --help was found: set the help texts and return 1
ShowHelp ==
    /\ pc = "help"
    /\ helpFound(options)
    /\ errorKey' = [errorKey EXCEPT
                        !.usage = generateUsageLine(progname(argv[1]), spec.hasOpts, spec.hasArgs),
                        !.options = generateOptionsList(spec.keys)]
    /\ result' = 1
    /\ pc' = "done"
    /\ heap' = ksDelAll(heap, <<"options", "spec.options", "spec.keys">>)
    /\ UNCHANGED <<ks, entry, argv, envp, spec, options, args, envValues, i, cursor, calls>>

\* no help: ksDel (spec.options), parseEnvp (envp), elektraArrayGet for args,
\* and on to the loop over spec.keys
ParseEnvp ==
    /\ pc = "help"
    /\ ~helpFound(options)
    /\ envValues' = parseEnvp(EmptyKs, envp, 1)
    /\ cursor' = 1
    /\ pc' = "write"
    /\ heap' = ksNewAll(ksDel(heap, "spec.options"), <<"envValues", "args">>)
    /\ UNCHANGED <<ks, entry, argv, envp, errorKey, spec, options, args, i, result, calls>>

\* one iteration of the loop over spec.keys
WriteKey ==
    /\ pc = "write"
    /\ cursor <= Len(spec.keys)
    /\ LET r == writeKey(ks, spec.keys[cursor], options, envValues, args)
       IN  IF r.res < 0
           THEN /\ ks' = r.ks
                /\ Fail(r.err)
                /\ heap' = ksDelAll(heap, <<"envValues", "options", "spec.keys", "args">>)
                /\ UNCHANGED cursor
           ELSE /\ ks' = r.ks
                /\ cursor' = cursor + 1
                /\ UNCHANGED <<errorKey, result, pc, heap>>
    /\ UNCHANGED <<entry, argv, envp, spec, options, args, envValues, i, calls>>

\* the end of the loop over spec.keys: return 0
Return ==
    /\ pc = "write"
    /\ cursor > Len(spec.keys)
    /\ result' = 0
    /\ pc' = "done"
    /\ heap' = ksDelAll(heap, <<"envValues", "options", "spec.keys", "args">>)
    /\ UNCHANGED <<ks, entry, argv, envp, errorKey, spec, options, args, envValues, i, cursor, calls>>

Next == ProcessSpec \/ ParseArg \/ CollectRest \/ ShowHelp \/ ParseEnvp \/ WriteKey \/ Return

\* The caller calls elektraGetOpts once more with the same ks, argv, envp
\* and error key after a call that returned 0.
CallAgain ==
    /\ pc = "done"
    /\ result = 0
    /\ calls < MaxCalls
    /\ calls' = calls + 1
    /\ entry' = ks
    /\ spec' = NoSpec
    /\ options' = EmptyKs
    /\ args' = <<>>
    /\ envValues' = EmptyKs
    /\ i' = 1
    /\ cursor' = 1
    /\ pc' = "processSpec"
    /\ heap' = NoHeap
    /\ UNCHANGED <<ks, argv, envp, errorKey, result>>

NextRepeated == Next \/ CallAgain

Spec == Init /\ [][Next]_vars

\* elektraGetOpts on the parser specifications, without environment.
ParserInit ==
    InitWith(ParserKeySets \cup EmptyShortKeySets \cup FlagValueKeySets, ParserArgvs, {<<>>},
             {NULL, <<"1">>})

ParserSpec == ParserInit /\ [][Next]_vars

\* elektraGetOpts on the specifications for the help message.
HelpInit == InitWith(HelpKeySets, HelpArgvs, {<<>>}, {NULL})

HelpSpec == HelpInit /\ [][Next]_vars

\* elektraGetOpts on the specifications next to other keys.
FrameInit == InitWith(FrameKeySets, Argvs, FrameEnvps, {NULL})

FrameSpec == FrameInit /\ [][Next]_vars

\* elektraGetOpts called repeatedly on the specifications that compile.
RepeatInit == InitWith(LegalKeySets, Argvs, Envps, {NULL})

RepeatSpec == RepeatInit /\ [][NextRepeated]_vars

(***************************************************************************)
(* Properties                                                              *)
(***************************************************************************)
HelpTokens == {<<"-", "h">>, <<"-", "-", "h", "e", "l", "p">>}

EndOfOptions == <<"-", "-">>

SpecErrorCodes == {"ILLEGAL_SPEC"}

ParseErrorMsgs ==
    {"unknown short option", "unknown long option", "option cannot be repeated", "missing argument",
     "option cannot have an argument"}

AlreadyUsedMsgs == {"another option has already been used", "another variable has already been used"}

\* elektraGetOpts has returned after compiling the specification and parsing
\* argv without error, and without showing the help.
WriterRan ==
    /\ pc = "done"
    /\ result # 1
    /\ errorKey.error.code \notin SpecErrorCodes
    /\ errorKey.error.msg \notin ParseErrorMsgs

PlanKeys == {spec.keys[n] : n \in 1..Len(spec.keys)}

IsArrayKey(k) == keyBaseName(k.name) = "#"

IsShortName(o) == o[1] = "/short"

OptPresent(k, n) == ksHas(options, k.opt[n])

EnvPresent(k, n) == ksHas(envValues, k.env[n])

PresentOpts(k) == {n \in 1..Len(k.opt) : OptPresent(k, n)}

PresentEnvs(k) == {n \in 1..Len(k.env) : EnvPresent(k, n)}

PresentShorts(k) == {n \in PresentOpts(k) : IsShortName(k.opt[n])}

PresentLongs(k) == {n \in PresentOpts(k) : ~IsShortName(k.opt[n])}

ProcParent(k) == keyDropBaseName(procName(k.name))

ElementIndexes == 0..(Len(ArrayLabels) - 1)

\* The proc keys of an array key hold exactly the elements of list, followed
\* by what the KeySet base held there, and the parent holds the last label.
ArrayHolds(k, list, base) ==
    /\ \A m \in ElementIndexes :
           LET e == arrayElementName(ProcParent(k), m)
           IN  IF m < Len(list)
               THEN ksHas(ks, e) /\ ks[e].value = list[m + 1]
               ELSE (ksHas(ks, e) <=> ksHas(base, e)) /\ (ksHas(ks, e) => ks[e] = base[e])
    /\ ksHas(ks, ProcParent(k))
    /\ ks[ProcParent(k)].value = arrayLastLabel(Len(list))

ScalarHolds(k, value) == ksHas(ks, procName(k.name)) /\ ks[procName(k.name)].value = value

ProcNamesOf(k) ==
    IF IsArrayKey(k)
    THEN {ProcParent(k)} \cup {arrayElementName(ProcParent(k), m) : m \in ElementIndexes}
    ELSE {procName(k.name)}

Unwritten(k) ==
    \A n \in ProcNamesOf(k) : (ksHas(ks, n) <=> ksHas(entry, n)) /\ (ksHas(ks, n) => ks[n] = entry[n])

\* C1 (as stated): whenever -h or --help occurs in argv before any "--" (and
\* no error is raised), elektraGetOpts returns 1 and ks is as it was on entry.
C1_HelpInArgv ==
    \E j \in 2..Len(argv) : argv[j] \in HelpTokens /\ \A m \in 2..(j - 1) : argv[m] # EndOfOptions

OptionSource(o) == [scalar |-> options[o].value, list |-> options[o].values]

EnvSource(name) == [scalar |-> envValues[name], list |-> splitAt(envValues[name], SEP_ENV_VALUE)]

OptionHasValue(o) == Len(options[o].value) > 0 \/ Len(options[o].values) > 0

SourceWritten(k, src) ==
    IF IsArrayKey(k) THEN ArrayHolds(k, src.list, entry) ELSE ScalarHolds(k, src.scalar)

\* C2: after a successful return the proc key of every plan entry holds the
\* value of a short option of the key if one occurred, else of a long option
\* if one occurred, else of an environment variable if one is present; the
\* remaining arguments are used only if there is none of these.
C2_Precedence ==
    (pc = "done" /\ result = 0) =>
        \A k \in PlanKeys :
            IF PresentShorts(k) # {}
            THEN \E n \in PresentShorts(k) : SourceWritten(k, OptionSource(k.opt[n]))
            ELSE IF PresentLongs(k) # {}
            THEN \E n \in PresentLongs(k) : SourceWritten(k, OptionSource(k.opt[n]))
            ELSE IF PresentEnvs(k) # {}
            THEN \E n \in PresentEnvs(k) : SourceWritten(k, EnvSource(k.env[n]))
            ELSE IF k.args = Remaining
            THEN ArrayHolds(k, args, entry)
            ELSE Unwritten(k)

Consulted(k, n) == IsShortName(k.opt[n]) \/ \A m \in PresentShorts(k) : m > n

OptionWritesValue(k, n) == IsArrayKey(k) \/ Len(options[k.opt[n]].value) > 0

EnvWritesValue(k, n) ==
    LET v == splitEnvValue(envValues[k.env[n]])
    IN  IF IsArrayKey(k) THEN v.hasValues ELSE Len(v.value) > 0

OptionConflict(k) ==
    \E a, b \in PresentOpts(k) : a < b /\ Consulted(k, a) /\ Consulted(k, b) /\ OptionWritesValue(k, a)

EnvConflict(k) ==
    PresentOpts(k) = {} /\ \E a, b \in PresentEnvs(k) : a < b /\ EnvWritesValue(k, a)

WrittenSources(k) ==
    {OptionSource(k.opt[n]) : n \in PresentOpts(k)}
        \cup {[scalar |-> splitEnvValue(envValues[k.env[n]]).value,
               list |-> splitEnvValue(envValues[k.env[n]]).values] :
                  n \in {m \in PresentEnvs(k) : IsArrayKey(k) => splitEnvValue(envValues[k.env[m]]).hasValues}}
        \cup (IF k.args = Remaining THEN {[scalar |-> <<>>, list |-> args]} ELSE {})

\* C4: after a successful return, for every plan entry either nothing was
\* written, or the proc keys of the entry are what exactly one source
\* writes: the value, or all the elements and the last index.
C4_OneSource ==
    (pc = "done" /\ result = 0) =>
        \A k \in PlanKeys : Unwritten(k) \/ \E src \in WrittenSources(k) : SourceWritten(k, src)

C4_Witness ==
    /\ pc = "done"
    /\ result = 0
    /\ \E k \in PlanKeys :
           /\ IsArrayKey(k)
           /\ PresentEnvs(k) = {1}
           /\ Len(args) > 0
           /\ ArrayHolds(k, <<<<"e">>, <<"g">>>>, entry)

\* C5: an error of the specification or of the parser leaves ks as it was on
\* entry; if elektraGetOpts returns -1 with ks changed the error is the
\* "already used" illegal-use error; and ks is unchanged before the writer
\* starts.
C5_MutatedOnlyByWriter ==
    /\ (pc = "done" /\ result = -1 /\ ks # entry) =>
           (errorKey.error.code = "ILLEGAL_USE" /\ errorKey.error.msg \in AlreadyUsedMsgs)
    /\ (pc = "done" /\ (errorKey.error.code \in SpecErrorCodes \cup {"UNKNOWN_OPTION"}
                        \/ errorKey.error.msg \in ParseErrorMsgs)) => ks = entry
    /\ pc \in {"processSpec", "parseArgs", "collect", "help"} => ks = entry

C5_Witness ==
    /\ pc = "done"
    /\ result = -1
    /\ ks # entry
    /\ errorKey.error.msg = "another variable has already been used"

SpecNames(k) == {n \in DOMAIN k : n[1] = "spec"}

SlotsOf(k, n) == {k[n].meta.opt[m] : m \in 1..Len(k[n].meta.opt)}

EnvsOf(k, n) == {k[n].meta.env[m] : m \in 1..Len(k[n].meta.env)}

\* Two different spec keys bind the same short option character, the same
\* long option name or the same environment variable.
DuplicateBinding(k) ==
    \E n1, n2 \in SpecNames(k) :
        /\ n1 # n2
        /\ \/ \E s1 \in SlotsOf(k, n1), s2 \in SlotsOf(k, n2) :
                  /\ keyGetMetaString(s1.short) # NULL
                  /\ keyGetMetaString(s2.short) # NULL
                  /\ s1.short[1] = s2.short[1]
           \/ \E s1 \in SlotsOf(k, n1), s2 \in SlotsOf(k, n2) :
                  /\ keyGetMetaString(s1.long) # NULL
                  /\ s1.long = s2.long
           \/ EnvsOf(k, n1) \cap EnvsOf(k, n2) # {}

\* C6: a specification that binds a short option, a long option or an
\* environment variable to two spec keys is rejected with -1 (illegal
\* specification) whatever argv and envp are, and before argv is looked at.
C6_DuplicateRejected ==
    (pc # "processSpec" /\ DuplicateBinding(entry)) =>
        /\ pc = "done"
        /\ result = -1
        /\ errorKey.error.code = "ILLEGAL_SPEC"
        /\ i = 1
        /\ options = EmptyKs
        /\ args = <<>>

C6_Witness ==
    /\ pc = "done"
    /\ result = -1
    /\ errorKey.error.msg = "short option already specified"
    /\ Len(argv) = 3
    /\ argv[2] = <<"-", "-", "h", "e", "l", "p">>
    /\ argv[3] = <<"-", "x">>

\* The option token tok takes the next argument as its value: a long option
\* without "=", or a cluster whose last character is the first one that
\* requires an argument.
RECURSIVE ClusterTakesNext(_, _)
ClusterTakesNext(tok, c) ==
    IF c > Len(tok) THEN FALSE
    ELSE IF spec.options[shortName(tok[c])].hasarg = Required THEN c = Len(tok)
    ELSE ClusterTakesNext(tok, c + 1)

TakesNext(tok) ==
    IF tok[2] = "-"
    THEN strchr(tok, "=", 1) = 0 /\ spec.options[longName(strFrom(tok, 3))].hasarg = Required
    ELSE ClusterTakesNext(tok, 2)

\* The positional arguments of an argv that parses: every argument after
\* "--" (in POSIX mode also after the first positional), and before it every
\* argument that is neither an option (a "-" followed by something) nor the
\* value of the option before it.
RECURSIVE PositionalTokens(_, _)
PositionalTokens(j, posixly) ==
    IF j > Len(argv) THEN <<>>
    ELSE IF argv[j] = EndOfOptions THEN SubSeq(argv, j + 1, Len(argv))
    ELSE IF Len(argv[j]) >= 2 /\ argv[j][1] = "-"
    THEN PositionalTokens(IF TakesNext(argv[j]) THEN j + 2 ELSE j + 1, posixly)
    ELSE IF posixly THEN SubSeq(argv, j, Len(argv))
    ELSE <<argv[j]>> \o PositionalTokens(j + 1, posixly)

\* C7: after a successful return every array key with args=remaining for
\* which no option and no environment variable is present holds the
\* positional arguments of argv as #0, #1, ..., in the order of argv, and
\* the parent holds the last index.
C7_RemainingArgs ==
    (pc = "done" /\ result = 0) =>
        \A k \in PlanKeys :
            (IsArrayKey(k) /\ k.args = Remaining /\ PresentOpts(k) = {} /\ PresentEnvs(k) = {})
            => ArrayHolds(k, PositionalTokens(2, errorKey.posixly = <<"1">>), entry)

\* C8: after a successful return every array key for which no option
\* occurred and one environment variable is present holds the pieces of the
\* value of the variable between separators, in order.
C8_EnvSplit ==
    (pc = "done" /\ result = 0) =>
        \A k \in PlanKeys :
            (IsArrayKey(k) /\ PresentOpts(k) = {} /\ Cardinality(PresentEnvs(k)) = 1)
            => \A n \in PresentEnvs(k) :
                   ArrayHolds(k, splitAt(envValues[k.env[n]], SEP_ENV_VALUE), entry)

\* C9: after a successful return every scalar key for which no option
\* occurred and one environment variable is present holds the value of the
\* variable as it is.
C9_EnvVerbatim ==
    (pc = "done" /\ result = 0) =>
        \A k \in PlanKeys :
            (~IsArrayKey(k) /\ PresentOpts(k) = {} /\ Cardinality(PresentEnvs(k)) = 1)
            => \A n \in PresentEnvs(k) : ScalarHolds(k, envValues[k.env[n]])

\* A spec key binds the short option '-' or 'h', or the long option "help".
ReservedBinding(k) ==
    \E n \in SpecNames(k) : \E s \in SlotsOf(k, n) :
        \/ keyGetMetaString(s.short) # NULL /\ s.short[1] \in {"-", "h"}
        \/ keyGetMetaString(s.long) # NULL /\ s.long = Help

\* C10: a specification that binds the short option '-' or 'h' or the long
\* option "help" is rejected with -1 (illegal specification), and the
\* entries of -h and --help in the option table never belong to a spec key.
C10_ReservedRejected ==
    /\ (pc # "processSpec" /\ ReservedBinding(entry)) =>
           (pc = "done" /\ result = -1 /\ errorKey.error.code = "ILLEGAL_SPEC")
    /\ spec.options[shortName("h")].key = <<>>
    /\ spec.options[longName(Help)].key = <<>>
    /\ ~ksHas(spec.options, shortName("-"))

C10_Witness ==
    /\ pc = "done"
    /\ result = -1
    /\ errorKey.error.msg = "'-' cannot be used as a short option"
    /\ Len(argv) = 2
    /\ argv[2] = <<"-", "h">>

\* A spec key has a short option ("opt" or "opt/#n") that is there but empty.
EmptyShort(k) ==
    \E n \in SpecNames(k) : \E s \in SlotsOf(k, n) : s.short = <<>>

\* C11: for a specification with a spec key whose short option metadata is
\* present with an empty value elektraGetOpts returns -1.
C11_EmptyShortRejected == (pc = "done" /\ EmptyShort(entry)) => result = -1

\* A slot sets a flagvalue (a string, or one that is there but empty) and has
\* a required argument, explicitly or by default.
RequiresArg(s) == keyGetMetaString(s.arg) = NULL \/ s.arg = Required

FlagValueSet(k) ==
    \E n \in SpecNames(k) : \E s \in SlotsOf(k, n) : s.flagvalue # NULL /\ RequiresArg(s)

FlagValueGiven(k) ==
    \E n \in SpecNames(k) : \E s \in SlotsOf(k, n) : keyGetMetaString(s.flagvalue) # NULL /\ RequiresArg(s)

\* C12 (as stated): for a specification with a slot that sets opt/flagvalue,
\* to whatever value, while its argument is required elektraGetOpts returns
\* -1.
C12_AsStated == (pc = "done" /\ FlagValueSet(entry)) => result = -1

\* C12 (amended): a specification with a slot that sets opt/flagvalue to a
\* string that is not empty while its argument is required (explicitly or by
\* default) is rejected with -1 (illegal specification) before argv is looked
\* at, and ks is left as it was.
C12_FlagValueRejected ==
    (pc # "processSpec" /\ FlagValueGiven(entry)) =>
        /\ pc = "done"
        /\ result = -1
        /\ errorKey.error.code = "ILLEGAL_SPEC"
        /\ i = 1
        /\ options = EmptyKs
        /\ ks = entry

C12_Witness ==
    /\ pc = "done"
    /\ result = -1
    /\ errorKey.error.msg = "flagvalue needs none or optional"
    /\ ksHas(entry, K1)
    /\ Len(entry[K1].meta.opt) = 2
    /\ keyGetMetaString(entry[K1].meta.opt[2].arg) = NULL
    /\ Len(argv) = 3
    /\ argv[2] = <<"-", "b">>

\* The parts of a long option token "--name" or "--name=value".
IsLongToken(tok) == Len(tok) > 2 /\ tok[1] = "-" /\ tok[2] = "-"

EqualsPositions(tok) == {p \in 3..Len(tok) : tok[p] = "="}

HasAttached(tok) == EqualsPositions(tok) # {}

FirstEquals(tok) == CHOOSE p \in EqualsPositions(tok) : \A q \in EqualsPositions(tok) : p <= q

LongNameOf(tok) == IF HasAttached(tok) THEN SubSeq(tok, 3, FirstEquals(tok) - 1) ELSE SubSeq(tok, 3, Len(tok))

AttachedOf(tok) == SubSeq(tok, FirstEquals(tok) + 1, Len(tok))

\* The parser is at argv[i] (element i + 1 of argv).
CurrentToken == argv[i + 1]

HasNextToken == i + 2 <= Len(argv)

NextToken == argv[i + 2]

\* The step records the value v for the option o: as its string if the key
\* of the option is not an array, else as one more element of its values.
Recorded(o, v) ==
    /\ ksHas(options', o)
    /\ IF spec.options[o].kind = "array"
       THEN options'[o].values = (IF ksHas(options, o) THEN options[o].values ELSE <<>>) \o <<v>>
       ELSE options'[o].value = v

\* The step records v for o and goes on n tokens further, without error.
Taken(o, v, n) ==
    /\ Recorded(o, v)
    /\ i' = i + n
    /\ errorKey' = errorKey
    /\ result' = result
    /\ pc' \in {"parseArgs", "collect"}

\* The step ends elektraGetOpts with -1 and the illegal-use error msg.
Refused(msg) == pc' = "done" /\ result' = -1 /\ errorKey'.error = IllegalUse(msg)

\* The parser is at a long option of the option table that may occur here
\* (it has not occurred before, or it belongs to an array key).
LongOccurs ==
    /\ pc = "parseArgs"
    /\ IsLongToken(CurrentToken)
    /\ ksHas(spec.options, longName(LongNameOf(CurrentToken)))
    /\ ksHas(options, longName(LongNameOf(CurrentToken)))
           => spec.options[longName(LongNameOf(CurrentToken))].kind = "array"

LongOptionStep(o, tok) ==
    IF spec.options[o].hasarg = Required
    THEN IF HasAttached(tok) THEN Taken(o, AttachedOf(tok), 1)
         ELSE IF HasNextToken THEN Taken(o, NextToken, 2)
         ELSE Refused("missing argument")
    ELSE IF spec.options[o].hasarg = Optional
    THEN Taken(o, IF HasAttached(tok) THEN AttachedOf(tok) ELSE spec.options[o].flagvalue, 1)
    ELSE IF HasAttached(tok) THEN Refused("option cannot have an argument")
         ELSE Taken(o, spec.options[o].flagvalue, 1)

\* C13: the step of the parser on a long option records a value by the
\* hasarg mode of the option: required - the value after "=" if there is one,
\* else the next token, which is consumed, else it fails with "missing
\* argument"; optional - the value after "=" if there is one, else the
\* flagvalue, and the next token is not consumed; none - the flagvalue, and a
\* value after "=" fails with "option cannot have an argument".
C13_LongOptionValue ==
    [][LongOccurs => LongOptionStep(longName(LongNameOf(CurrentToken)), CurrentToken)]_vars

C13_Witness ==
    /\ pc = "done"
    /\ result = 0
    /\ argv = <<Prog, <<"-", "-", "l", "o">>, <<"p">>>>
    /\ ksHas(options, longName(<<"l", "o">>))
    /\ options[longName(<<"l", "o">>)].value = <<"f">>
    /\ args = <<<<"p">>>>
    /\ ksHas(ks, <<"proc", "k1">>)
    /\ ks[<<"proc", "k1">>].value = <<"f">>

\* The parser is at a long option "--name=" of the option table, with
\* nothing after the "=", whose argument is required or optional.
EmptyAttachedOccurs ==
    /\ LongOccurs
    /\ HasAttached(CurrentToken)
    /\ AttachedOf(CurrentToken) = <<>>
    /\ spec.options[longName(LongNameOf(CurrentToken))].hasarg \in {Required, Optional}

\* C14: the step of the parser on "--name=" records the empty string as the
\* value of the option and goes on with the next token, which is not
\* consumed, both for a required argument and for an optional argument (the
\* flagvalue is not used).
C14_EmptyAttached ==
    [][EmptyAttachedOccurs => Taken(longName(LongNameOf(CurrentToken)), <<>>, 1)]_vars

C14_Witness ==
    /\ pc = "done"
    /\ result = 0
    /\ argv = <<Prog, <<"-", "-", "l", "o", "=">>, <<"-", "b">>>>
    /\ spec.options[longName(<<"l", "o">>)].hasarg = Optional
    /\ spec.options[longName(<<"l", "o">>)].flagvalue = <<"f">>
    /\ ksHas(options, longName(<<"l", "o">>))
    /\ options[longName(<<"l", "o">>)].value = <<>>
    /\ ksHas(options, shortName("b"))

\* A short-option cluster: "-" followed by characters, the first not "-".
IsCluster(tok) == Len(tok) >= 2 /\ tok[1] = "-" /\ tok[2] # "-"

\* The positions of the characters of the cluster whose option requires an
\* argument, the characters being options of the table up to there.
ArgPositions(tok) ==
    {p \in 2..Len(tok) : ksHas(spec.options, shortName(tok[p]))
                             /\ spec.options[shortName(tok[p])].hasarg = Required}

\* The last position of the cluster read as an option: the first one that
\* requires an argument, else the end of the token.
LastOptionPosition(tok) ==
    IF ArgPositions(tok) = {} THEN Len(tok)
    ELSE CHOOSE p \in ArgPositions(tok) : \A q \in ArgPositions(tok) : p <= q

OptionPositions(tok) == 2..LastOptionPosition(tok)

\* The argument of the cluster: the rest of the token, else the next token.
ClusterArgument(tok) ==
    IF LastOptionPosition(tok) < Len(tok)
    THEN SubSeq(tok, LastOptionPosition(tok) + 1, Len(tok))
    ELSE NextToken

\* The values the cluster gives to option o, from left to right, from
\* position p on.
RECURSIVE ClusterValues(_, _, _)
ClusterValues(tok, o, p) ==
    IF p > LastOptionPosition(tok) THEN <<>>
    ELSE (IF shortName(tok[p]) # o THEN <<>>
          ELSE IF p \in ArgPositions(tok) THEN <<ClusterArgument(tok)>>
          ELSE <<spec.options[o].flagvalue>>) \o ClusterValues(tok, o, p + 1)

\* The parser is at a cluster whose characters (up to the one that takes the
\* argument) are options of the table that may occur here: the options of
\* keys that are no arrays occur once and have not occurred before.
ClusterOccurs ==
    /\ pc = "parseArgs"
    /\ IsCluster(CurrentToken)
    /\ \A p \in OptionPositions(CurrentToken) :
           /\ ksHas(spec.options, shortName(CurrentToken[p]))
           /\ spec.options[shortName(CurrentToken[p])].kind # "array" =>
                  /\ ~ksHas(options, shortName(CurrentToken[p]))
                  /\ \A q \in OptionPositions(CurrentToken) : q # p => CurrentToken[q] # CurrentToken[p]

\* The cluster needs the next token as the argument of its last character.
ClusterNeedsNext(tok) == LastOptionPosition(tok) = Len(tok) /\ ArgPositions(tok) # {}

ClusterStep(tok) ==
    IF ClusterNeedsNext(tok) /\ ~HasNextToken
    THEN Refused("missing argument")
    ELSE /\ DOMAIN options' = DOMAIN options \cup {shortName(tok[p]) : p \in OptionPositions(tok)}
         /\ \A o \in DOMAIN options \ {shortName(tok[p]) : p \in OptionPositions(tok)} :
                options'[o] = options[o]
         /\ \A p \in OptionPositions(tok) :
                LET o == shortName(tok[p])
                IN  IF spec.options[o].kind = "array"
                    THEN options'[o].values =
                             (IF ksHas(options, o) THEN options[o].values ELSE <<>>)
                                 \o ClusterValues(tok, o, 2)
                    ELSE <<options'[o].value>> = ClusterValues(tok, o, 2)
         /\ i' = IF ClusterNeedsNext(tok) THEN i + 2 ELSE i + 1
         /\ errorKey' = errorKey
         /\ result' = result
         /\ pc' \in {"parseArgs", "collect"}

\* C15: the step of the parser on a short-option cluster goes through the
\* characters from left to right: a character whose argument is none or
\* optional records its flagvalue and the next character follows; the first
\* character whose argument is required takes the whole rest of the token as
\* its value and ends the cluster, or, being the last character, takes the
\* next token, which is consumed, or fails with "missing argument" if there
\* is no next token.  No other option is recorded.
C15_ShortCluster == [][ClusterOccurs => ClusterStep(CurrentToken)]_vars

C15_Witness ==
    /\ pc = "done"
    /\ argv = <<Prog, <<"-", "b", "a">>, <<"-", "a", "b", "v">>>>
    /\ DOMAIN options = {shortName("a"), shortName("b")}
    /\ options[shortName("b")].values = <<<<"1">>>>
    /\ options[shortName("a")].values = <<<<"-", "a", "b", "v">>>>
    /\ args = <<>>

\* A character of the cluster that is read as an option is no option of the
\* table.
UnknownInCluster(tok) == \E p \in OptionPositions(tok) : ~ksHas(spec.options, shortName(tok[p]))

\* From element j of argv on, an option token that is read as an option
\* (before "--", in POSIX mode before the first positional argument, and not
\* as the argument of the option before it) names an option that is not in
\* the option table.
RECURSIVE UnknownProcessed(_, _)
UnknownProcessed(j, posixly) ==
    IF j > Len(argv) \/ argv[j] = EndOfOptions THEN FALSE
    ELSE IF IsLongToken(argv[j])
    THEN IF ~ksHas(spec.options, longName(LongNameOf(argv[j]))) THEN TRUE
         ELSE UnknownProcessed(
                  IF spec.options[longName(LongNameOf(argv[j]))].hasarg = Required /\ ~HasAttached(argv[j])
                  THEN j + 2 ELSE j + 1, posixly)
    ELSE IF IsCluster(argv[j])
    THEN IF UnknownInCluster(argv[j]) THEN TRUE
         ELSE UnknownProcessed(IF ClusterNeedsNext(argv[j]) THEN j + 2 ELSE j + 1, posixly)
    ELSE IF posixly THEN FALSE
    ELSE UnknownProcessed(j + 1, posixly)

\* The parser is at a token whose first fault is an unknown option: a long
\* option that is not in the table, or a cluster with an unknown character
\* before which every character may occur.
UnknownOccurs ==
    /\ pc = "parseArgs"
    /\ \/ IsLongToken(CurrentToken) /\ ~ksHas(spec.options, longName(LongNameOf(CurrentToken)))
       \/ /\ IsCluster(CurrentToken)
          /\ \E p \in OptionPositions(CurrentToken) :
                 /\ ~ksHas(spec.options, shortName(CurrentToken[p]))
                 /\ \A q \in 2..(p - 1) :
                        /\ ksHas(spec.options, shortName(CurrentToken[q]))
                        /\ spec.options[shortName(CurrentToken[q])].kind # "array" =>
                               /\ ~ksHas(options, shortName(CurrentToken[q]))
                               /\ \A r \in 2..(q - 1) : CurrentToken[r] # CurrentToken[q]

\* C16: when the specification compiles and an option token that is read as
\* an option names a short character or a long name that is not in the
\* option table, elektraGetOpts returns -1 with an error of the parser,
\* whatever else argv holds, and ks is as on entry; and the step of the
\* parser that meets the unknown option ends elektraGetOpts with -1 and the
\* unknown-option error.
C16_UnknownOption ==
    /\ [](  (pc = "done" /\ errorKey.error.code # "ILLEGAL_SPEC"
                /\ UnknownProcessed(2, keyGetMetaString(errorKey.posixly) = <<"1">>))
         => (result = -1 /\ errorKey.error.code \in {"UNKNOWN_OPTION", "ILLEGAL_USE"} /\ ks = entry))
    /\ [][UnknownOccurs =>
              (pc' = "done" /\ result' = -1 /\ errorKey'.error.code = "UNKNOWN_OPTION" /\ ks' = ks)]_vars

C16_Witness ==
    /\ pc = "done"
    /\ result = -1
    /\ errorKey.error = UnknownOption("unknown long option")
    /\ argv = <<Prog, <<"-", "h">>, <<"-", "-", "z", "z">>>>
    /\ ksHas(options, shortName("h"))
    /\ Len(spec.keys) = 2

\* The option o of a key that is no array has been recorded before.
SingleSeen(o) == spec.options[o].kind # "array" /\ ksHas(options, o)

\* The parser is at a token whose first fault is a second occurrence of an
\* option of a key that is no array, in the same form: a long option that was
\* recorded before, or a cluster with a character that was recorded before or
\* stands earlier in the cluster, every character before it being an option
\* that may occur.
RepeatOccurs ==
    /\ pc = "parseArgs"
    /\ \/ /\ IsLongToken(CurrentToken)
          /\ ksHas(spec.options, longName(LongNameOf(CurrentToken)))
          /\ SingleSeen(longName(LongNameOf(CurrentToken)))
       \/ /\ IsCluster(CurrentToken)
          /\ \E p \in OptionPositions(CurrentToken) :
                 /\ \A q \in 2..p : ksHas(spec.options, shortName(CurrentToken[q]))
                 /\ spec.options[shortName(CurrentToken[p])].kind # "array"
                 /\ \/ ksHas(options, shortName(CurrentToken[p]))
                    \/ \E r \in 2..(p - 1) : CurrentToken[r] = CurrentToken[p]

\* C17: the step of the parser that meets a second occurrence, in the same
\* form (the same short character, also within one cluster, or the same long
\* name), of an option of a spec key that is no array ends elektraGetOpts
\* with -1 and the illegal-use error "cannot be repeated"; ks is left as it
\* is.
C17_NoRepetition ==
    [][RepeatOccurs => (Refused("option cannot be repeated") /\ ks' = ks)]_vars

C17_Witness ==
    /\ pc = "done"
    /\ result = -1
    /\ errorKey.error = IllegalUse("option cannot be repeated")
    /\ argv = <<Prog, <<"-", "-", "l", "o", "=">>, <<"-", "-", "l", "o", "=", "w">>>>
    /\ spec.options[longName(<<"l", "o">>)].kind = "single"
    /\ spec.options[longName(<<"l", "o">>)].key = K1
    /\ ks = entry

\* The values a cluster gives to option o, from position p on, arg being the
\* argument of the character that requires one.
RECURSIVE ClusterValuesWith(_, _, _, _)
ClusterValuesWith(tok, o, p, arg) ==
    IF p > LastOptionPosition(tok) THEN <<>>
    ELSE (IF shortName(tok[p]) # o THEN <<>>
          ELSE IF p \in ArgPositions(tok) THEN <<arg>>
          ELSE <<spec.options[o].flagvalue>>) \o ClusterValuesWith(tok, o, p + 1, arg)

\* The value a long option token at element j of argv gives to its option.
LongValueAt(j) ==
    LET o == longName(LongNameOf(argv[j]))
    IN  IF HasAttached(argv[j]) THEN AttachedOf(argv[j])
        ELSE IF spec.options[o].hasarg = Required THEN argv[j + 1]
        ELSE spec.options[o].flagvalue

\* The values of the occurrences of option o in an argv that parses, in the
\* order of argv, from element j on: the tokens parseArgs reads as options,
\* which passes over a lone "-" without taking it as a positional argument.
RECURSIVE Occurrences(_, _, _)
Occurrences(o, j, posixly) ==
    IF j > Len(argv) \/ argv[j] = EndOfOptions THEN <<>>
    ELSE IF IsLongToken(argv[j])
    THEN (IF longName(LongNameOf(argv[j])) = o THEN <<LongValueAt(j)>> ELSE <<>>)
             \o Occurrences(o, IF TakesNext(argv[j]) THEN j + 2 ELSE j + 1, posixly)
    ELSE IF IsCluster(argv[j])
    THEN ClusterValuesWith(argv[j], o, 2,
                           IF LastOptionPosition(argv[j]) < Len(argv[j])
                           THEN SubSeq(argv[j], LastOptionPosition(argv[j]) + 1, Len(argv[j]))
                           ELSE IF j < Len(argv) THEN argv[j + 1] ELSE <<>>)
             \o Occurrences(o, IF TakesNext(argv[j]) THEN j + 2 ELSE j + 1, posixly)
    ELSE IF posixly /\ argv[j] # <<"-">> THEN <<>>
    ELSE Occurrences(o, j + 1, posixly)

PosixMode == keyGetMetaString(errorKey.posixly) = <<"1">>

\* C18 (as stated): after a successful return, for every option of an array
\* key that occurs in argv, the proc tree holds the values of its occurrences
\* as #0, #1, ... in the order of argv and the parent holds the last index.
C18_AsStated ==
    (pc = "done" /\ result = 0) =>
        \A k \in PlanKeys :
            IsArrayKey(k) =>
                \A n \in PresentOpts(k) : ArrayHolds(k, Occurrences(k.opt[n], 2, PosixMode), entry)

\* The option of the key the writer takes: a short option that occurred, else
\* a long option that occurred.
ChosenOpts(k) == IF PresentShorts(k) # {} THEN PresentShorts(k) ELSE PresentLongs(k)

\* C18 (amended): after a successful return every option of an array key
\* that occurs in argv has collected the values of all its occurrences in
\* the order of argv, and the proc tree holds as #0, #1, ... the values of the
\* short option of the key that occurred, or, if no short option of the key
\* occurred, of the long option that occurred, the parent holding the last
\* index.
C18_ArrayAccumulates ==
    (pc = "done" /\ result = 0) =>
        \A k \in PlanKeys :
            IsArrayKey(k) =>
                /\ \A n \in PresentOpts(k) :
                       options[k.opt[n]].values = Occurrences(k.opt[n], 2, PosixMode)
                /\ \A n \in ChosenOpts(k) : ArrayHolds(k, Occurrences(k.opt[n], 2, PosixMode), entry)

C18_Witness ==
    /\ pc = "done"
    /\ result = 0
    /\ argv = <<Prog, <<"-", "-", "l", "o", "=", "w">>, <<"-", "-", "l", "o", "=">>>>
    /\ ksHas(ks, <<"proc", "k2", "#1">>)
    /\ ks[<<"proc", "k2", "#0">>].value = <<"w">>
    /\ ks[<<"proc", "k2", "#1">>].value = <<>>
    /\ ks[<<"proc", "k2">>].value = arrayLastLabel(2)

\* C19: when elektraGetOpts returns 0 for a specification with an
\* args=remaining key and the first argument is exactly "-", it is the first
\* positional argument.
C19_DashPositional ==
    (pc = "done" /\ result = 0 /\ spec.hasArgs /\ Len(argv) >= 2 /\ argv[2] = <<"-">>) =>
        (Len(args) >= 1 /\ args[1] = <<"-">>)

\* The specification compiled and argv was parsed without error.
ArgvParsed ==
    \/ pc \in {"help", "write"}
    \/ pc = "done" /\ errorKey.error.code \notin SpecErrorCodes /\ errorKey.error.msg \notin ParseErrorMsgs

IsOptionToken(tok) == IsLongToken(tok) \/ IsCluster(tok)

\* The element of argv, from element j on, that is the first "--" parseArgs
\* reads while it looks for options: not the argument of the option before
\* it and, in POSIX mode, not after a positional argument; 0 if there is
\* none.  (parseArgs passes over a lone "-".)
RECURSIVE EndOfOptionsIndex(_, _)
EndOfOptionsIndex(j, posixly) ==
    IF j > Len(argv) THEN 0
    ELSE IF argv[j] = EndOfOptions THEN j
    ELSE IF IsOptionToken(argv[j]) THEN EndOfOptionsIndex(IF TakesNext(argv[j]) THEN j + 2 ELSE j + 1, posixly)
    ELSE IF posixly /\ argv[j] # <<"-">> THEN 0
    ELSE EndOfOptionsIndex(j + 1, posixly)

\* The positional arguments among the elements j .. last of argv, all of
\* them read while parseArgs looks for options.
RECURSIVE PositionalsUpTo(_, _)
PositionalsUpTo(j, last) ==
    IF j > last THEN <<>>
    ELSE IF IsOptionToken(argv[j]) THEN PositionalsUpTo(IF TakesNext(argv[j]) THEN j + 2 ELSE j + 1, last)
    ELSE IF argv[j] = <<"-">> THEN PositionalsUpTo(j + 1, last)
    ELSE <<argv[j]>> \o PositionalsUpTo(j + 1, last)

\* The options that occur before "--".
OptionsAsRead(posixly) == {o \in DOMAIN spec.options : Occurrences(o, 2, posixly) # <<>>}

\* The positional arguments from element j of argv on, if the first "--"
\* that is not the argument of the option before it is dropped wherever it
\* stands, and every token after it is a positional argument; stopped says
\* that a positional argument has ended the options (POSIX mode).
RECURSIVE PositionalsDroppingFirstEnd(_, _, _)
PositionalsDroppingFirstEnd(j, posixly, stopped) ==
    IF j > Len(argv) THEN <<>>
    ELSE IF argv[j] = EndOfOptions THEN SubSeq(argv, j + 1, Len(argv))
    ELSE IF ~stopped /\ IsOptionToken(argv[j])
    THEN PositionalsDroppingFirstEnd(IF TakesNext(argv[j]) THEN j + 2 ELSE j + 1, posixly, stopped)
    ELSE IF ~stopped /\ argv[j] = <<"-">>
    THEN PositionalsDroppingFirstEnd(j + 1, posixly, stopped)
    ELSE <<argv[j]>> \o PositionalsDroppingFirstEnd(j + 1, posixly, posixly)

OptionNamesOf(tok) ==
    IF IsLongToken(tok) THEN {longName(LongNameOf(tok))}
    ELSE {shortName(tok[p]) : p \in OptionPositions(tok)}

\* The options of an argv that parses, from element j on, when every token
\* that is no option token (a lone "-" too) is a positional argument, and in
\* POSIX mode the first positional argument ends the options.
RECURSIVE OptionNamesRead(_, _)
OptionNamesRead(j, posixly) ==
    IF j > Len(argv) \/ argv[j] = EndOfOptions THEN {}
    ELSE IF IsOptionToken(argv[j])
    THEN OptionNamesOf(argv[j]) \cup OptionNamesRead(IF TakesNext(argv[j]) THEN j + 2 ELSE j + 1, posixly)
    ELSE IF posixly THEN {}
    ELSE OptionNamesRead(j + 1, posixly)

\* C21: when argv parses, the options recorded are those of the option
\* tokens before "--" and, if and only if posixly = "1", before the first
\* positional argument: in POSIX mode no token after the first positional
\* argument is read as an option, otherwise the tokens after a positional
\* argument still are.
C21_PosixStops == ArgvParsed => DOMAIN options = OptionNamesRead(2, PosixMode)

\* C22: on every return of elektraGetOpts each internal KeySet that was
\* created has been deleted exactly once, and at no time has one been
\* deleted more often than it was created.
C22_ReleasedOnce ==
    \A c \in Containers :
        /\ heap[c].created <= 1
        /\ heap[c].deleted <= heap[c].created
        /\ pc = "done" => heap[c].deleted = heap[c].created

\* A write error is returned after all six KeySets were created and deleted.
C22_Witness ==
    /\ pc = "done"
    /\ result = -1
    /\ errorKey.error.msg \in AlreadyUsedMsgs
    /\ \A c \in Containers : heap[c].created = 1 /\ heap[c].deleted = 1

\* A slot that binds an option: a short option character or a long option.
BindsOption(s) == keyGetMetaString(s.short) # NULL \/ keyGetMetaString(s.long) # NULL

Hidden(s) == s.nohelp = <<"1">>

\* The specification has an option slot that is not hidden.
HasShownOption(k) == \E n \in SpecNames(k) : \E s \in SlotsOf(k, n) : BindsOption(s) /\ ~Hidden(s)

\* Some spec key has args=remaining.
HasRemaining(k) == \E n \in SpecNames(k) : k[n].meta.args = Remaining

SlashPositions(str) == {p \in 1..Len(str) : str[p] = "/"}

\* str without everything up to and including its last '/'
AfterLastSlash(str) ==
    IF SlashPositions(str) = {} THEN str
    ELSE SubSeq(str, (CHOOSE p \in SlashPositions(str) : \A q \in SlashPositions(str) : q <= p) + 1, Len(str))

HelpReturned == pc = "done" /\ result = 1

\* C23: on return 1 the usage on the error key is "Usage: ", argv[0] after
\* its last '/', " [OPTION]..." exactly when the specification has an option
\* slot that is not hidden, " [ARG]..." exactly when a key has
\* args=remaining, and a newline.
C23_UsageLine ==
    HelpReturned =>
        errorKey.usage =
            <<"U", "s", "a", "g", "e", ":", " ">> \o AfterLastSlash(argv[1])
                \o (IF HasShownOption(entry) THEN <<" ", "[", "O", "P", "T", "I", "O", "N", "]", ".", ".", ".">>
                    ELSE <<>>)
                \o (IF HasRemaining(entry) THEN <<" ", "[", "A", "R", "G", "]", ".", ".", ".">> ELSE <<>>)
                \o <<"\n">>

\* The help is returned for a specification with hidden options only and no
\* args=remaining key, called by a path with directories.
C23_Witness ==
    /\ HelpReturned
    /\ \E n \in SpecNames(entry) : \E s \in SlotsOf(entry, n) : BindsOption(s) /\ Hidden(s)
    /\ ~HasShownOption(entry)
    /\ ~HasRemaining(entry)
    /\ SlashPositions(argv[1]) # {}
    /\ errorKey.usage = <<"U", "s", "a", "g", "e", ":", " ", "p", "r", "o", "g", "\n">>

\* The help lines of plan entries, each preceded by a newline; an entry
\* without a help line gives nothing.
RECURSIVE HelpLines(_)
HelpLines(entries) ==
    IF entries = <<>> THEN <<>>
    ELSE (IF Head(entries).opthelp # NULL THEN <<"\n">> \o Head(entries).opthelp ELSE <<>>)
             \o HelpLines(Tail(entries))

HasHelpLine(k) == k.opthelp # NULL

\* The plan entry has a binding of an option that is not hidden.
ShowsOption(k) ==
    \E s \in SlotsOf(entry, k.name) :
        /\ ~Hidden(s)
        /\ \/ keyGetMetaString(s.short) # NULL /\ shortName(s.short[1]) \in {k.opt[n] : n \in 1..Len(k.opt)}
           \/ keyGetMetaString(s.long) # NULL /\ longName(s.long) \in {k.opt[n] : n \in 1..Len(k.opt)}

\* C24: on return 1 the options text on the error key is empty when the plan
\* list is empty; when a plan entry has a help line it is "OPTIONS", the
\* help lines of the plan entries in plan order, each after a newline, and
\* one newline at the end; a plan entry has a help line only if it shows an
\* option, so hidden and env-only keys give no line.
C24_OptionsBlock ==
    HelpReturned =>
        /\ Len(spec.keys) = 0 => errorKey.options = <<>>
        /\ (\E k \in PlanKeys : HasHelpLine(k)) =>
               errorKey.options = <<"O", "P", "T", "I", "O", "N", "S">> \o HelpLines(spec.keys) \o <<"\n">>
        /\ \A k \in PlanKeys : HasHelpLine(k) <=> ShowsOption(k)

\* The help is returned for a plan list of three entries of which the first
\* two (a hidden option, the remaining arguments) have no help line.
C24_Witness ==
    /\ HelpReturned
    /\ Len(spec.keys) = 3
    /\ ~HasHelpLine(spec.keys[1])
    /\ ~HasHelpLine(spec.keys[2])
    /\ HasHelpLine(spec.keys[3])
    /\ errorKey.options = <<"O", "P", "T", "I", "O", "N", "S", "\n">> \o spec.keys[3].opthelp \o <<"\n">>

\* The option table has been compiled.
Compiled == pc # "processSpec" /\ errorKey.error.code \notin SpecErrorCodes

\* C25 as stated: in the compiled option table an entry with hasarg=required
\* has no flagvalue.
C25_AsStated ==
    Compiled => \A o \in DOMAIN spec.options :
                    spec.options[o].hasarg = Required => spec.options[o].flagvalue = NULL

\* C25: in the compiled option table every entry carries a flagvalue; one
\* whose flagvalue is not the default "1" has hasarg none or optional, and
\* an entry with hasarg=required carries the default "1".
C25_FlagValue ==
    Compiled => \A o \in DOMAIN spec.options :
                    /\ spec.options[o].flagvalue # NULL
                    /\ spec.options[o].flagvalue # <<"1">> => spec.options[o].hasarg \in {None, Optional}
                    /\ spec.options[o].hasarg = Required => spec.options[o].flagvalue = <<"1">>

\* A table with an entry of a required argument (flagvalue "1") has been
\* compiled from a slot that gives no flagvalue, and the call returned 0.
C25_Witness ==
    /\ pc = "done"
    /\ result = 0
    /\ \E o \in DOMAIN spec.options :
           /\ spec.options[o].hasarg = Required
           /\ spec.options[o].flagvalue = <<"1">>
           /\ \A s \in SlotsOf(entry, spec.options[o].key) : s.flagvalue = NULL

\* Option s is named by an option token of argv and option l by a later one.
OccursBefore(s, l) ==
    \E j \in 2..Len(argv) : \E m \in (j + 1)..Len(argv) :
        /\ IsOptionToken(argv[j])
        /\ s \in OptionNamesOf(argv[j])
        /\ IsOptionToken(argv[m])
        /\ l \in OptionNamesOf(argv[m])

\* C26: when argv parsed, exactly one short option of a spec key was
\* recorded and a long option of the same key (of whatever slot) occurred
\* later in argv, the long option is shadowed: elektraGetOpts returns 0 and
\* the key holds the value of the short option.
C26_ShortShadowsLong ==
    WriterRan =>
        \A k \in PlanKeys : \A a \in PresentShorts(k) : \A b \in PresentLongs(k) :
            (PresentShorts(k) = {a} /\ OccursBefore(k.opt[a], k.opt[b]))
                => (result = 0 /\ SourceWritten(k, OptionSource(k.opt[a])))

\* What each token argv[j..] of an argv that parses is: an option token, the
\* argument taken by the required option before it, the "--" that ends the
\* options, or a positional argument (a lone "-" too).
RECURSIVE TokenRoles(_, _, _)
TokenRoles(j, posixly, stopped) ==
    IF j > Len(argv) THEN <<>>
    ELSE IF stopped THEN <<"positional">> \o TokenRoles(j + 1, posixly, TRUE)
    ELSE IF argv[j] = EndOfOptions THEN <<"end">> \o TokenRoles(j + 1, posixly, TRUE)
    ELSE IF IsOptionToken(argv[j])
    THEN IF TakesNext(argv[j])
         THEN <<"option", "argument">> \o TokenRoles(j + 2, posixly, FALSE)
         ELSE <<"option">> \o TokenRoles(j + 1, posixly, FALSE)
    ELSE <<"positional">> \o TokenRoles(j + 1, posixly, posixly)

\* The tokens of argv[2..] with the role positional, in the order of argv.
RECURSIVE TokensWithRole(_, _, _)
TokensWithRole(roles, role, n) ==
    IF n > Len(roles) THEN <<>>
    ELSE (IF roles[n] = role THEN <<argv[n + 1]>> ELSE <<>>) \o TokensWithRole(roles, role, n + 1)

\* The option that takes the next token as its argument.
ArgumentTaker(tok) ==
    IF IsLongToken(tok) THEN longName(LongNameOf(tok)) ELSE shortName(tok[LastOptionPosition(tok)])

\* Option o has the value v: as its string, or as one of its values.
HasValue(o, v) ==
    /\ ksHas(options, o)
    /\ \/ options[o].value = v
       \/ \E n \in 1..Len(options[o].values) : options[o].values[n] = v

\* C27: the index into argv never decreases and increases with every
\* iteration of the scan that is followed by another one, and when argv has
\* parsed every token after argv[0] is exactly
\* one of option token, argument of a required option (taken as it is),
\* "--" ending the options, or positional argument: the positional list is
\* the tokens that are positional arguments in the order of argv, each
\* option token's options are recorded, and each argument is the value
\* of the option before it.
C27_TokenAccounting ==
    /\ [](ArgvParsed =>
              LET roles == TokenRoles(2, PosixMode, FALSE)
              IN  /\ Len(roles) = Len(argv) - 1
                  /\ args = TokensWithRole(roles, "positional", 1)
                  /\ \A n \in 1..Len(roles) :
                         /\ roles[n] = "option" => OptionNamesOf(argv[n + 1]) \subseteq DOMAIN options
                         /\ roles[n] = "argument" => HasValue(ArgumentTaker(argv[n]), argv[n + 1]))
    /\ [][i' >= i /\ ((pc = "parseArgs" /\ pc' = "parseArgs") => i' > i)]_vars

\* The proc key that holds the value of a plan entry: the key itself, the
\* parent for an array key.
ProcTarget(k) == IF IsArrayKey(k) THEN ProcParent(k) ELSE procName(k.name)

\* ks held on entry of this call the value of the source for the plan entry.
HeldOnEntry(k, src) ==
    /\ ksHas(entry, ProcTarget(k))
    /\ IF IsArrayKey(k)
       THEN /\ entry[ProcTarget(k)].value = arrayLastLabel(Len(src.list))
            /\ \A m \in 0..(Len(src.list) - 1) :
                   /\ ksHas(entry, arrayElementName(ProcParent(k), m))
                   /\ entry[arrayElementName(ProcParent(k), m)].value = src.list[m + 1]
       ELSE entry[ProcTarget(k)].value = src.scalar

\* The call before this one wrote a value that is not empty for the plan
\* entry from an option or an environment variable.
WrittenBefore(k) ==
    /\ ksHas(entry, ProcTarget(k))
    /\ Len(entry[ProcTarget(k)].value) > 0
    /\ \/ \E n \in PresentOpts(k) : HeldOnEntry(k, OptionSource(k.opt[n]))
       \/ \E n \in PresentEnvs(k) : HeldOnEntry(k, EnvSource(k.env[n]))

\* The call before this one resolved the plan entry from the remaining
\* arguments only.
ArgsBefore(k) ==
    /\ k.args = Remaining
    /\ HeldOnEntry(k, [scalar |-> <<>>, list |-> args])
    /\ ~WrittenBefore(k)

SecondReturned == calls = 2 /\ pc = "done"

\* C28: a second call with the same ks, argv and envp after a call that
\* returned 0 returns -1 ("already used") if the first call wrote a value
\* that is not empty from an option or an environment variable, and leaves
\* that value as it was written; if the first call resolved keys from the
\* remaining arguments only, the second call writes them again and returns 0.
C28_NotRepeatable ==
    SecondReturned =>
        /\ (\E k \in PlanKeys : WrittenBefore(k)) =>
               /\ result = -1
               /\ errorKey.error.msg \in AlreadyUsedMsgs
               /\ \A k \in PlanKeys : WrittenBefore(k) =>
                      \A n \in ProcNamesOf(k) :
                          (ksHas(ks, n) <=> ksHas(entry, n)) /\ (ksHas(ks, n) => ks[n] = entry[n])
        /\ ((\A k \in PlanKeys : ~WrittenBefore(k)) /\ (\E k \in PlanKeys : ArgsBefore(k))) =>
               /\ result = 0
               /\ \A k \in PlanKeys : ArgsBefore(k) => ArrayHolds(k, args, entry)

\* The present options of the plan entry that the writer looks at.
ConsultedOpts(k) == {n \in PresentOpts(k) : Consulted(k, n)}

\* The string splitEnvValue gives for the variable of the plan entry: the
\* value itself, or nothing if the value contains the separator.
EnvString(k, n) ==
    IF strchr(envValues[k.env[n]], SEP_ENV_VALUE, 1) = 0 THEN envValues[k.env[n]] ELSE <<>>

\* elektraGetOpts returned -1 from the writer at plan entry k.
FailedAt(k) == result = -1 /\ cursor <= Len(spec.keys) /\ spec.keys[cursor] = k

HeldEmptyOnEntry(k) == ~ksHas(entry, ProcTarget(k)) \/ entry[ProcTarget(k)].value = <<>>

HasBinding(k, n) == k[n].meta.opt # <<>> \/ k[n].meta.env # <<>> \/ k[n].meta.args = Remaining

\* The proc keys that stand for the spec key named n: the key with the
\* namespace replaced, for an array key its parent and the elements.
CounterpartsOf(n) ==
    IF n[Len(n)] = "#"
    THEN {<<"proc">> \o SubSeq(n, 2, Len(n) - 1)}
             \cup {<<"proc">> \o SubSeq(n, 2, Len(n) - 1) \o <<ArrayLabels[m]>> : m \in 1..Len(ArrayLabels)}
    ELSE {<<"proc">> \o SubSeq(n, 2, Len(n))}

BoundCounterparts(k) == UNION {CounterpartsOf(n) : n \in {m \in SpecNames(k) : HasBinding(k, m)}}

\* C30: on every return of elektraGetOpts every key of ks on entry is still
\* in ks; every one that is not a proc key standing for a spec key with a
\* binding is as it was, the spec keys in particular; and every key that
\* was added is a proc key standing for a spec key with a binding.
C30_Frame ==
    pc = "done" =>
        /\ DOMAIN entry \subseteq DOMAIN ks
        /\ \A n \in DOMAIN entry \ BoundCounterparts(entry) : ks[n] = entry[n]
        /\ \A n \in SpecNames(entry) : ks[n] = entry[n]
        /\ DOMAIN ks \ DOMAIN entry \subseteq BoundCounterparts(entry)

\* A call returned 0 and wrote the proc key of a spec key with a binding,
\* next to a spec key without a binding whose proc key was in ks on entry.
C30_Witness ==
    /\ pc = "done"
    /\ result = 0
    /\ ks # entry
    /\ \E n \in SpecNames(entry) :
           /\ ~HasBinding(entry, n)
           /\ CounterpartsOf(n) \cap DOMAIN entry # {}
           /\ \A m \in CounterpartsOf(n) \cap DOMAIN entry : ks[m] = entry[m]

====
